---------------------------- MODULE Spec2Model ----------------------------
(***************************************************************************)
(* Power, force and torque (PFT) on a surface of an RWG-discretised        *)
(* scatterer: the overlap formulation (OPFT.cc) and the equivalence-       *)
(* principle formulation (EPPFT.cc) of libscuff.                           *)
(*                                                                         *)
(* Real and complex doubles are modelled by exact rationals <<n, d>> and   *)
(* complex rationals [re, im], so that "in exact arithmetic" statements    *)
(* are what is checked.  C arrays are functions on 0..n-1, a null pointer  *)
(* is NULL.                                                                *)
(***************************************************************************)
EXTENDS Integers, Sequences, FiniteSets, TLC

VARIABLES
  G,         \* the RWGGeometry: surfaces, offsets, region materials
  call,      \* the arguments of the call being executed
  pc,        \* control point of the call
  PFT,       \* the caller's PFT output vector
  ByEdge,    \* the caller's ByEdge argument: NULL, or 7 entries (NULL or array)
  loc,       \* locals of the running entry point (loop indices, accumulators)
  warnings,  \* number of Warn() calls made
  reads,     \* which inputs were read: {<<what, index>>}
  Overlaps,  \* the caller's output array of GetOverlaps
  nebOut,    \* the caller's nebArray[5] and the returned count
  me         \* the outputs of the matrix-element routines

vars == <<G, call, pc, PFT, ByEdge, loc, warnings, reads, Overlaps, nebOut, me>>

\* a null array, vector or matrix pointer: the array with no entry
NULL == << >>

(***************************************************************************)
(* Exact rational arithmetic.                                              *)
(***************************************************************************)
Abs(n) == IF n < 0 THEN -n ELSE n

RECURSIVE GCD(_, _)
GCD(a, b) == IF b = 0 THEN a ELSE GCD(b, a % b)

\* the normal form of n/d (d /= 0): positive denominator, lowest terms
NormG(n, d, g) ==
  IF d < 0 THEN <<(-n) \div g, (-d) \div g>> ELSE <<n \div g, d \div g>>
RQ(n, d) == NormG(n, d, GCD(Abs(n), Abs(d)))

RI(n) == <<n, 1>>
RZero == <<0, 1>>
ROne  == <<1, 1>>

RNeg(a) == <<-a[1], a[2]>>
\* sums over the least common denominator, products reduced crosswise
RAddG(a, b, g) == RQ(a[1] * (b[2] \div g) + b[1] * (a[2] \div g), (a[2] \div g) * b[2])
RAdd(a, b) == RAddG(a, b, GCD(a[2], b[2]))
RSub(a, b) == RAddG(a, <<-b[1], b[2]>>, GCD(a[2], b[2]))
RMulG(a, b, g1, g2) ==
  IF a[1] = 0 \/ b[1] = 0 THEN <<0, 1>>
  ELSE <<(a[1] \div g1) * (b[1] \div g2), (a[2] \div g2) * (b[2] \div g1)>>
RMul(a, b) == RMulG(a, b, GCD(Abs(a[1]), b[2]), GCD(Abs(b[1]), a[2]))
RDiv(a, b) ==
  RMul(a, IF b[1] < 0 THEN <<-b[2], -b[1]>> ELSE <<b[2], b[1]>>)
\* a double times, or divided by, a whole-number literal
RMulI(n, a) == RQ(n * a[1], a[2])
RDivI(a, n) == RQ(a[1], a[2] * n)

\* the square root of a rational that is a perfect square
ISqrt(n) == CHOOSE r \in 0..n : r * r = n
RSqrt(a) == <<ISqrt(a[1]), ISqrt(a[2])>>

(***************************************************************************)
(* Complex numbers (cdouble).                                              *)
(***************************************************************************)
C(re, im) == [re |-> re, im |-> im]
CR(a)     == [re |-> a, im |-> <<0, 1>>]        \* a real as a cdouble
CI(n)     == [re |-> <<n, 1>>, im |-> <<0, 1>>]
CZero     == CI(0)
II        == [re |-> <<0, 1>>, im |-> <<1, 1>>]
real(z)   == z.re
conj(z)   == [re |-> z.re, im |-> RNeg(z.im)]
CNeg(z)   == [re |-> RNeg(z.re), im |-> RNeg(z.im)]
CAdd(z, w) == [re |-> RAdd(z.re, w.re), im |-> RAdd(z.im, w.im)]
CSub(z, w) == [re |-> RSub(z.re, w.re), im |-> RSub(z.im, w.im)]
CMul(z, w) == [re |-> RSub(RMul(z.re, w.re), RMul(z.im, w.im)),
               im |-> RAdd(RMul(z.re, w.im), RMul(z.im, w.re))]
CScale(a, z) == [re |-> RMul(a, z.re), im |-> RMul(a, z.im)]   \* double * cdouble
CDivN(q, n2) == [re |-> RDiv(q.re, n2), im |-> RDiv(q.im, n2)]
CDiv(z, w) ==
  CDivN(CMul(z, conj(w)), RAdd(RMul(w.re, w.re), RMul(w.im, w.im)))
\* sqrt of a cdouble on the positive real axis (the material values used)
CSqrt(z) == CR(RSqrt(z.re))

(***************************************************************************)
(* 3-vectors of doubles: VecSub, VecCross and the dot product written out  *)
(* in OPFT.cc.                                                             *)
(***************************************************************************)
Vec(x, y, z) == [i \in 0..2 |-> <<IF i = 0 THEN x ELSE IF i = 1 THEN y ELSE z, 1>>]
VecSub(a, b) == [i \in 0..2 |-> RSub(a[i], b[i])]
VecCross(a, b) ==
  [i \in 0..2 |-> RSub(RMul(a[(i + 1) % 3], b[(i + 2) % 3]),
                       RMul(a[(i + 2) % 3], b[(i + 1) % 3]))]
VecDot(a, b) == RAdd(RAdd(RMul(a[0], b[0]), RMul(a[1], b[1])), RMul(a[2], b[2]))
R3(a, b, c) == RAdd(RAdd(a, b), c)
R4(a, b, c, d) == RAdd(RAdd(a, b), RAdd(c, d))
R5(a, b, c, d, e) == RAdd(R4(a, b, c, d), e)


(***************************************************************************)
(* Geometry.  An RWGSurface holds Vertices, Panels (VI, EI, ZHat, Area)    *)
(* and Edges (iPPanel, iMPanel, PIndex, MIndex, iQP, iV1, iV2, iQM,        *)
(* Length); EI[i] of a panel is the edge opposite its vertex i.  All       *)
(* panels are 3-4-5 right triangles in the plane z = 0, so that Length,    *)
(* Area and ZHat are exact.                                                *)
(***************************************************************************)
Arr3(a, b, c) == [i \in 0..2 |-> IF i = 0 THEN a ELSE IF i = 1 THEN b ELSE c]
ArrOf(s) == [i \in 0..(Len(s) - 1) |-> s[i + 1]]

Panel(vi, ei, nz) ==
  [VI |-> vi, EI |-> ei, ZHat |-> Vec(0, 0, nz), Area |-> RI(6)]
Edge(pp, pm, pi, mi, qp, v1, v2, qm, len) ==
  [iPPanel |-> pp, iMPanel |-> pm, PIndex |-> pi, MIndex |-> mi,
   iQP |-> qp, iV1 |-> v1, iV2 |-> v2, iQM |-> qm, Length |-> RI(len)]

RectVertices == ArrOf(<<Vec(0, 0, 0), Vec(3, 0, 0), Vec(3, 4, 0), Vec(0, 4, 0)>>)
TriVertices  == ArrOf(<<Vec(0, 0, 0), Vec(3, 0, 0), Vec(0, 4, 0)>>)

\* a closed surface of two panels glued along all three edges
Dihedron(isPEC, nrIn) ==
  [Name |-> "Dihedron", NumEdges |-> 3, NumPanels |-> 2, IsPEC |-> isPEC,
   RegionIndices |-> ArrOf(<<0, nrIn>>),
   Vertices |-> TriVertices,
   Panels |-> ArrOf(<<Panel(Arr3(0, 1, 2), Arr3(0, 1, 2), 1),
                      Panel(Arr3(0, 2, 1), Arr3(0, 2, 1), -1)>>),
   Edges |-> ArrOf(<<Edge(0, 1, 0, 0, 0, 1, 2, 0, 5),
                     Edge(0, 1, 1, 2, 1, 2, 0, 1, 4),
                     Edge(0, 1, 2, 1, 2, 0, 1, 2, 3)>>)]

\* a closed surface of four panels: a rectangle with a top and a bottom
\* side, each split by one of the two diagonals
Pillow(isPEC, nrIn) ==
  [Name |-> "Pillow", NumEdges |-> 6, NumPanels |-> 4, IsPEC |-> isPEC,
   RegionIndices |-> ArrOf(<<0, nrIn>>),
   Vertices |-> RectVertices,
   Panels |-> ArrOf(<<Panel(Arr3(0, 1, 2), Arr3(3, 0, 2), 1),
                      Panel(Arr3(0, 2, 3), Arr3(4, 5, 0), 1),
                      Panel(Arr3(0, 3, 1), Arr3(1, 2, 5), -1),
                      Panel(Arr3(1, 3, 2), Arr3(4, 3, 1), -1)>>),
   Edges |-> ArrOf(<<Edge(0, 1, 1, 2, 1, 0, 2, 3, 5),
                     Edge(2, 3, 0, 2, 0, 3, 1, 2, 5),
                     Edge(0, 2, 2, 1, 2, 0, 1, 3, 3),
                     Edge(0, 3, 0, 1, 0, 1, 2, 3, 4),
                     Edge(1, 3, 0, 0, 0, 2, 3, 1, 3),
                     Edge(1, 2, 1, 2, 2, 3, 0, 1, 4)>>)]

\* an open rectangle of two panels whose four boundary edges are basis
\* functions without a negative panel (iMPanel = -1)
Sheet(isPEC, nrIn) ==
  [Name |-> "Sheet", NumEdges |-> 5, NumPanels |-> 2, IsPEC |-> isPEC,
   RegionIndices |-> ArrOf(<<0, nrIn>>),
   Vertices |-> RectVertices,
   Panels |-> ArrOf(<<Panel(Arr3(0, 1, 2), Arr3(2, 0, 1), 1),
                      Panel(Arr3(0, 2, 3), Arr3(3, 4, 0), 1)>>),
   Edges |-> ArrOf(<<Edge(0, 1, 1, 2, 1, 0, 2, 3, 5),
                     Edge(0, -1, 2, -1, 2, 0, 1, -1, 3),
                     Edge(0, -1, 0, -1, 0, 1, 2, -1, 4),
                     Edge(1, -1, 0, -1, 0, 2, 3, -1, 3),
                     Edge(1, -1, 1, -1, 2, 3, 0, -1, 4)>>)]

\* an open strip of four panels (two rectangles side by side): three edges
\* have both panels, six boundary edges have no negative panel; panels 1
\* and 2 have no vertex in common
Strip(isPEC, nrIn) ==
  [Name |-> "Strip", NumEdges |-> 9, NumPanels |-> 4, IsPEC |-> isPEC,
   RegionIndices |-> ArrOf(<<0, nrIn>>),
   Vertices |-> ArrOf(<<Vec(0, 0, 0), Vec(3, 0, 0), Vec(3, 4, 0), Vec(0, 4, 0),
                        Vec(6, 0, 0), Vec(6, 4, 0)>>),
   Panels |-> ArrOf(<<Panel(Arr3(0, 1, 2), Arr3(1, 0, 3), 1),
                      Panel(Arr3(0, 2, 3), Arr3(4, 5, 0), 1),
                      Panel(Arr3(1, 4, 5), Arr3(7, 2, 6), 1),
                      Panel(Arr3(1, 5, 2), Arr3(8, 1, 2), 1)>>),
   Edges |-> ArrOf(<<Edge(0, 1, 1, 2, 1, 0, 2, 3, 5),
                     Edge(0, 3, 0, 1, 0, 1, 2, 5, 4),
                     Edge(2, 3, 1, 2, 4, 1, 5, 2, 5),
                     Edge(0, -1, 2, -1, 2, 0, 1, -1, 3),
                     Edge(1, -1, 0, -1, 0, 2, 3, -1, 3),
                     Edge(1, -1, 1, -1, 2, 3, 0, -1, 4),
                     Edge(2, -1, 2, -1, 5, 1, 4, -1, 3),
                     Edge(2, -1, 0, -1, 1, 4, 5, -1, 4),
                     Edge(3, -1, 0, -1, 1, 5, 2, -1, 3)>>)]

\* the open rectangle with basis functions on interior edges only: NumEdges
\* counts the one interior edge; the four boundary edges are exterior edges,
\* not in Edges, and the panels' EI slots for them hold -(k+1), k the
\* number of the exterior edge
SheetExterior(isPEC, nrIn) ==
  [Name |-> "SheetExterior", NumEdges |-> 1, NumPanels |-> 2, IsPEC |-> isPEC,
   RegionIndices |-> ArrOf(<<0, nrIn>>),
   Vertices |-> RectVertices,
   Panels |-> ArrOf(<<Panel(Arr3(0, 1, 2), Arr3(-2, 0, -1), 1),
                      Panel(Arr3(0, 2, 3), Arr3(-3, -4, 0), 1)>>),
   Edges |-> ArrOf(<<Edge(0, 1, 1, 2, 1, 0, 2, 3, 5)>>)]

\* an open surface of one scalene panel with sides 15, 13 and 14, whose
\* three boundary edges are basis functions without a negative panel
Scalene(isPEC, nrIn) ==
  [Name |-> "Scalene", NumEdges |-> 3, NumPanels |-> 1, IsPEC |-> isPEC,
   RegionIndices |-> ArrOf(<<0, nrIn>>),
   Vertices |-> ArrOf(<<Vec(0, 0, 0), Vec(14, 0, 0), Vec(5, 12, 0)>>),
   Panels |-> ArrOf(<<[Panel(Arr3(0, 1, 2), Arr3(0, 1, 2), 1) EXCEPT !.Area = RI(84)]>>),
   Edges |-> ArrOf(<<Edge(0, -1, 0, -1, 0, 1, 2, -1, 15),
                     Edge(0, -1, 1, -1, 1, 2, 0, -1, 13),
                     Edge(0, -1, 2, -1, 2, 0, 1, -1, 14)>>)]

\* number of basis functions (current coefficients) of a surface
NumBFs(S) == IF S.IsPEC THEN S.NumEdges ELSE 2 * S.NumEdges

\* region materials: Eps and Mu of the exterior (0) and interior (1) region
MP(eps, mu) == [Eps |-> CI(eps), Mu |-> CI(mu)]
RegionMPs == ArrOf(<<MP(1, 1), MP(4, 1)>>)

Geometry(surfs) ==
  [NumSurfaces |-> Len(surfs),
   Surfaces |-> ArrOf(surfs),
   BFIndexOffset |->
     [n \in 0..(Len(surfs) - 1) |->
        IF n = 0 THEN 0
        ELSE IF n = 1 THEN NumBFs(surfs[1])
        ELSE NumBFs(surfs[1]) + NumBFs(surfs[2])],
   RegionMPs |-> RegionMPs]

Geometries ==
  { Geometry(<<Dihedron(TRUE, -1), Pillow(FALSE, 1)>>),
    Geometry(<<Dihedron(FALSE, 1)>>),
    Geometry(<<Sheet(TRUE, -1), Dihedron(FALSE, -1)>>) }

\* the geometry's data are consistent: EI names the edge opposite each
\* vertex, and every edge is EI[PIndex] of its panels
EdgeOK(S, ne) ==
  LET E == S.Edges[ne]
  IN  /\ E.iPPanel \in 0..(S.NumPanels - 1)
      /\ S.Panels[E.iPPanel].EI[E.PIndex] = ne
      /\ S.Panels[E.iPPanel].VI[E.PIndex] = E.iQP
      /\ E.iMPanel /= -1 =>
           /\ E.iMPanel \in 0..(S.NumPanels - 1)
           /\ S.Panels[E.iMPanel].EI[E.MIndex] = ne
           /\ S.Panels[E.iMPanel].VI[E.MIndex] = E.iQM
GeometryOK(g) ==
  \A ns \in 0..(g.NumSurfaces - 1) :
    LET S == g.Surfaces[ns]
    IN  /\ \A ne \in 0..(S.NumEdges - 1) : EdgeOK(S, ne)
        /\ \A np \in 0..(S.NumPanels - 1) : \A i \in 0..2 :
             LET ne == S.Panels[np].EI[i]
             IN  ne >= 0 =>
                   /\ ne \in 0..(S.NumEdges - 1)
                   /\ np \in {S.Edges[ne].iPPanel, S.Edges[ne].iMPanel}

(***************************************************************************)
(* Overlap integrals (OPFT.cc).                                            *)
(***************************************************************************)
NUMOVERLAPS == 20
OVERLAP_OVERLAP == 0
OVERLAP_CROSS == 1
OVERLAP_BULLET_X == 2
OVERLAP_NABLANABLA_X == 3
OVERLAP_TIMESNABLA_X == 4
OVERLAP_RXBULLET_X == 11
OVERLAP_RXNABLANABLA_X == 12
OVERLAP_RXTIMESNABLA_X == 13
TENTHIRDS == <<10, 3>>

\* memset(Overlaps, 0, NUMOVERLAPS*sizeof(double))
ZeroOverlaps == [i \in 0..(NUMOVERLAPS - 1) |-> <<0, 1>>]

\* lines 133-158: the increments of the 20 overlaps, added to Ov
AOC_Accumulate(ZHat, PreFac, ZxL1, ZxL2, ZxQa, QaxZxL1, QaxZxL2, TimesFactor, BulletFactor1, BulletFactor2, BulletFactor3, NablaCrossFactor, Ov) ==
  LET \* Overlaps[2+3i], [3+3i], [4+3i] and [11+3i], [12+3i], [13+3i]
      Bullet(i) == RMul(PreFac, RMul(ZHat[i], BulletFactor1))
      NablaNabla(i) == RMul(PreFac, RMulI(2, ZHat[i]))
      TimesNabla(i) ==
        RMul(PreFac, RDivI(RAdd(RMulI(2, ZxL1[i]), ZxL2[i]), 3))
      RxBullet(i) ==
        RNeg(RMul(PreFac, R3(RMul(ZxQa[i], BulletFactor1),
                             RMul(ZxL1[i], BulletFactor2),
                             RMul(ZxL2[i], BulletFactor3))))
      RxNablaNabla(i) ==
        RNeg(RMul(PreFac, R3(RMulI(2, ZxQa[i]),
                             RDivI(RMulI(4, ZxL1[i]), 3),
                             RDivI(RMulI(2, ZxL2[i]), 3))))
      RxTimesNabla(i) ==
        RMul(PreFac, R3(RMul(ZHat[i], NablaCrossFactor),
                        RDivI(RMulI(2, QaxZxL1[i]), 3),
                        RDivI(QaxZxL2[i], 3)))
      Delta(n) ==
        CASE n = 0 -> RMul(PreFac, BulletFactor1)
          [] n = 1 -> RMul(PreFac, TimesFactor)
          [] n \in {2, 5, 8}    -> Bullet((n - 2) \div 3)
          [] n \in {3, 6, 9}    -> NablaNabla((n - 2) \div 3)
          [] n \in {4, 7, 10}   -> TimesNabla((n - 2) \div 3)
          [] n \in {11, 14, 17} -> RxBullet((n - 11) \div 3)
          [] n \in {12, 15, 18} -> RxNablaNabla((n - 11) \div 3)
          [] n \in {13, 16, 19} -> RxTimesNabla((n - 11) \div 3)
  IN  [n \in 0..(NUMOVERLAPS - 1) |-> RAdd(Ov[n], Delta(n))]

\* lines 124-131: TimesFactor, the BulletFactors and NablaCrossFactor
AOC_Factors(ZHat, PreFac, L1, L2, ZxL1, ZxL2, ZxDQ, ZxQa, QaxZxL1, QaxZxL2, L1dL1, L1dL2, L1dDQ, L2dL2, L2dDQ, Ov) ==
  AOC_Accumulate(ZHat, PreFac, ZxL1, ZxL2, ZxQa, QaxZxL1, QaxZxL2,
    RDivI(R3(RMul(RAdd(RMulI(2, L1[0]), L2[0]), ZxDQ[0]),
             RMul(RAdd(RMulI(2, L1[1]), L2[1]), ZxDQ[1]),
             RMul(RAdd(RMulI(2, L1[2]), L2[2]), ZxDQ[2])), 6),
    R4(RDivI(RAdd(L1dL1, L1dL2), 4), RDivI(L1dDQ, 3),
       RDivI(L2dL2, 12), RDivI(L2dDQ, 6)),
    R4(RDivI(RAdd(L1dL1, L1dL2), 5), RDivI(L1dDQ, 4),
       RDivI(L2dL2, 15), RDivI(L2dDQ, 8)),
    R5(RDivI(L1dL1, 10), RDivI(RMulI(2, L1dL2), 15), RDivI(L1dDQ, 8),
       RDivI(L2dL2, 20), RDivI(L2dDQ, 12)),
    RAdd(RDivI(RAdd(L1dL1, L1dL2), 2), RDivI(L2dL2, 6)),
    Ov)

\* lines 108-122: the cross products with ZHat and Qa, PreFac, the dot products
AOC_Products(ZHat, PreFac, Qa, L1, L2, DQ, ZxL1, ZxL2, Ov) ==
  AOC_Factors(ZHat, PreFac, L1, L2, ZxL1, ZxL2,
    VecCross(ZHat, DQ), VecCross(ZHat, Qa),
    VecCross(Qa, ZxL1), VecCross(Qa, ZxL2),
    VecDot(L1, L1), VecDot(L1, L2), VecDot(L1, DQ),
    VecDot(L2, L2), VecDot(L2, DQ), Ov)

AOC_Vectors(ZHat, PreFac, Qa, L1, L2, DQ, Ov) ==
  AOC_Products(ZHat, PreFac, Qa, L1, L2, DQ,
               VecCross(ZHat, L1), VecCross(ZHat, L2), Ov)

\* the contributions of a panel with DQ taken as Qb - Qa
AddOverlapContributions_DQReversed(S, P, iQa, iQb, Sign, LL, Ov) ==
  AOC_Vectors(P.ZHat, RDiv(RMul(Sign, LL), RMulI(2, P.Area)),
    S.Vertices[P.VI[iQa]],
    VecSub(S.Vertices[P.VI[(iQa + 1) % 3]], S.Vertices[P.VI[iQa]]),
    VecSub(S.Vertices[P.VI[(iQa + 2) % 3]], S.Vertices[P.VI[(iQa + 1) % 3]]),
    VecSub(S.Vertices[P.VI[iQb]], S.Vertices[P.VI[iQa]]),
    Ov)

\* the contributions of panel P to the 20 overlap integrals, added to Ov
\* (lines 97-106: Qa, QaP1, QaP2, Qb and L1, L2, DQ)
AddOverlapContributions(S, P, iQa, iQb, Sign, LL, Ov) ==
  AOC_Vectors(P.ZHat, RDiv(RMul(Sign, LL), RMulI(2, P.Area)),
    S.Vertices[P.VI[iQa]],
    VecSub(S.Vertices[P.VI[(iQa + 1) % 3]], S.Vertices[P.VI[iQa]]),
    VecSub(S.Vertices[P.VI[(iQa + 2) % 3]], S.Vertices[P.VI[(iQa + 1) % 3]]),
    VecSub(S.Vertices[P.VI[iQa]], S.Vertices[P.VI[iQb]]),
    Ov)

\* which of the four panel combinations of lines 215-222 contribute
OverlapPP(EAlpha, EBeta) == EAlpha.iPPanel = EBeta.iPPanel
OverlapPM(EAlpha, EBeta) == EAlpha.iPPanel = EBeta.iMPanel
OverlapMP(EAlpha, EBeta) ==
  (EAlpha.iMPanel /= -1) /\ (EAlpha.iMPanel = EBeta.iPPanel)
OverlapMM(EAlpha, EBeta) ==
  (EAlpha.iMPanel /= -1) /\ (EAlpha.iMPanel = EBeta.iMPanel)

\* lines 215-222, one if statement per k = 0..3, from k on
RECURSIVE GetOverlaps_From(_, _, _, _, _, _)
GetOverlaps_From(S, EAlpha, EBeta, LL, k, Ov) ==
  IF k = 4 THEN Ov
  ELSE GetOverlaps_From(S, EAlpha, EBeta, LL, k + 1,
         IF CASE k = 0 -> OverlapPP(EAlpha, EBeta)
              [] k = 1 -> OverlapPM(EAlpha, EBeta)
              [] k = 2 -> OverlapMP(EAlpha, EBeta)
              [] k = 3 -> OverlapMM(EAlpha, EBeta)
         THEN AddOverlapContributions(S,
                S.Panels[IF k < 2 THEN EAlpha.iPPanel ELSE EAlpha.iMPanel],
                IF k < 2 THEN EAlpha.PIndex ELSE EAlpha.MIndex,
                IF k \in {0, 2} THEN EBeta.PIndex ELSE EBeta.MIndex,
                IF k \in {0, 3} THEN <<1, 1>> ELSE <<-1, 1>>,
                LL, Ov)
         ELSE Ov)

\* GetOverlaps without the memset: accumulates onto what the array held
GetOverlaps_NoMemset(S, neAlpha, neBeta, Ov) ==
  GetOverlaps_From(S, S.Edges[neAlpha], S.Edges[neBeta],
                   RMul(S.Edges[neAlpha].Length, S.Edges[neBeta].Length), 0, Ov)

\* RWGSurface::GetOverlaps: the array Ov on return
GetOverlaps(S, neAlpha, neBeta, Ov) ==
  GetOverlaps_From(S, S.Edges[neAlpha], S.Edges[neBeta],
                   RMul(S.Edges[neAlpha].Length, S.Edges[neBeta].Length), 0,
                   ZeroOverlaps)

\* GetOverlappingEdgeIndices taking both pairs of edges from the positive panel
GetOverlappingEdgeIndices_BothFromPP(S, nea, nebArray) ==
  LET E  == S.Edges[nea]
      PP == S.Panels[E.iPPanel]
      a3 == [nebArray EXCEPT ![0] = nea,
                             ![1] = PP.EI[(E.PIndex + 1) % 3],
                             ![2] = PP.EI[(E.PIndex + 2) % 3]]
  IN  IF E.iMPanel = -1
      THEN [count |-> 3, nebArray |-> a3]
      ELSE [count |-> 5,
            nebArray |-> [a3 EXCEPT ![3] = PP.EI[(E.MIndex + 1) % 3],
                                    ![4] = PP.EI[(E.MIndex + 2) % 3]]]

\* GetOverlappingEdgeIndices storing -1 in nebArray[3] and nebArray[4] when
\* the edge has no negative panel
GetOverlappingEdgeIndices_Padded(S, nea, nebArray) ==
  LET E  == S.Edges[nea]
      PP == S.Panels[E.iPPanel]
      a3 == [nebArray EXCEPT ![0] = nea,
                             ![1] = PP.EI[(E.PIndex + 1) % 3],
                             ![2] = PP.EI[(E.PIndex + 2) % 3]]
  IN  IF E.iMPanel = -1
      THEN [count |-> 3, nebArray |-> [a3 EXCEPT ![3] = -1, ![4] = -1]]
      ELSE [count |-> 5,
            nebArray |-> [a3 EXCEPT ![3] = S.Panels[E.iMPanel].EI[(E.MIndex + 1) % 3],
                                    ![4] = S.Panels[E.iMPanel].EI[(E.MIndex + 2) % 3]]]

\* GetOverlappingEdgeIndices: the returned count and nebArray on return
GetOverlappingEdgeIndices(S, nea, nebArray) ==
  LET E  == S.Edges[nea]
      PP == S.Panels[E.iPPanel]
      iQP == E.PIndex
      a3 == [nebArray EXCEPT ![0] = nea,
                             ![1] = PP.EI[(iQP + 1) % 3],
                             ![2] = PP.EI[(iQP + 2) % 3]]
  IN  IF E.iMPanel = -1
      THEN [count |-> 3, nebArray |-> a3]
      ELSE LET PM == S.Panels[E.iMPanel]
               iQM == E.MIndex
           IN  [count |-> 5,
                nebArray |-> [a3 EXCEPT ![3] = PM.EI[(iQM + 1) % 3],
                                        ![4] = PM.EI[(iQM + 2) % 3]]]

(***************************************************************************)
(* The overlap queries as a caller sees them: GetOverlaps into an output   *)
(* array that holds arbitrary values, then GetOverlappingEdgeIndices into  *)
(* an array of 5 unwritten entries.                                        *)
(***************************************************************************)
Unused == "unused"
Unwritten == -9
PriorOverlaps ==
  { [i \in 0..(NUMOVERLAPS - 1) |-> RI(7)],
    [i \in 0..(NUMOVERLAPS - 1) |-> RQ(i - 3, 2)] }

Surf(g, ns) == g.Surfaces[ns]
EdgesOf(S) == 0..(S.NumEdges - 1)

\* the surfaces of the overlap queries: those of Geometries, an open
\* surface with exterior edges and a scalene panel
OverlapGeometries ==
  Geometries \cup {Geometry(<<SheetExterior(TRUE, -1)>>), Geometry(<<Scalene(TRUE, -1)>>)}

InitOverlap ==
  /\ G \in OverlapGeometries
  /\ \E ns \in 0..(G.NumSurfaces - 1) :
       \E a \in EdgesOf(Surf(G, ns)), b \in EdgesOf(Surf(G, ns)) :
         \E prior \in PriorOverlaps :
           /\ call = [fn |-> "GetOverlaps", ns |-> ns, neAlpha |-> a,
                      neBeta |-> b, prior |-> prior]
           /\ Overlaps = prior
  /\ nebOut = [count |-> 0, nebArray |-> [i \in 0..4 |-> Unwritten]]
  /\ pc = "call"
  /\ PFT = Unused /\ ByEdge = Unused /\ loc = Unused
  /\ warnings = 0 /\ reads = {} /\ me = Unused

CallGetOverlaps ==
  /\ pc = "call" /\ call.fn = "GetOverlaps"
  /\ Overlaps' = GetOverlaps(Surf(G, call.ns), call.neAlpha, call.neBeta, Overlaps)
  /\ pc' = "overlaps"
  /\ UNCHANGED <<G, call, PFT, ByEdge, loc, warnings, reads, nebOut, me>>

CallGetOverlappingEdgeIndices ==
  /\ pc = "overlaps"
  /\ nebOut' = GetOverlappingEdgeIndices(Surf(G, call.ns), call.neAlpha, nebOut.nebArray)
  /\ pc' = "indices"
  /\ UNCHANGED <<G, call, PFT, ByEdge, loc, warnings, reads, Overlaps, me>>

NextOverlap == CallGetOverlaps \/ CallGetOverlappingEdgeIndices
SpecOverlap == InitOverlap /\ [][NextOverlap]_vars

\* the panels an edge's basis function is supported on
PanelsOf(E) == {E.iPPanel, E.iMPanel} \ {-1}
SharePanel(S, nea, neb) == PanelsOf(S.Edges[nea]) \cap PanelsOf(S.Edges[neb]) /= {}
\* GetOverlaps(nea, neb) adds at least one panel contribution
Contributes(S, nea, neb) ==
  LET Ea == S.Edges[nea]  Eb == S.Edges[neb]
  IN  OverlapPP(Ea, Eb) \/ OverlapPM(Ea, Eb) \/ OverlapMP(Ea, Eb) \/ OverlapMM(Ea, Eb)

GeometryConsistent == GeometryOK(G)

\* C3: two basis functions that share no panel (boundary edges without a
\* negative panel included) get all 20 overlaps exactly zero from
\* GetOverlaps, whatever the output array held before the call.
C3_DisjointSupportAllZero ==
  (pc \in {"overlaps", "indices"}
     /\ ~SharePanel(Surf(G, call.ns), call.neAlpha, call.neBeta))
  => \A i \in 0..(NUMOVERLAPS - 1) : Overlaps[i] = RZero

\* C3 happens: two boundary edges on different panels, nonzero array before
C3_Witness ==
  /\ pc = "overlaps"
  /\ ~SharePanel(Surf(G, call.ns), call.neAlpha, call.neBeta)
  /\ Surf(G, call.ns).Edges[call.neAlpha].iMPanel = -1
  /\ Surf(G, call.ns).Edges[call.neBeta].iMPanel = -1
  /\ \A i \in 0..(NUMOVERLAPS - 1) : call.prior[i] /= RZero

Enumerated == {nebOut.nebArray[i] : i \in 0..(nebOut.count - 1)}

\* C4: the indices GetOverlappingEdgeIndices writes in positions
\* 0..count-1 include every edge neb for which GetOverlaps(nea, neb) adds a
\* panel contribution, i.e. every edge sharing a panel with nea.
C4_AdjacencySuperset ==
  pc = "indices"
  => \A neb \in EdgesOf(Surf(G, call.ns)) :
       (Contributes(Surf(G, call.ns), call.neAlpha, neb)
          \/ SharePanel(Surf(G, call.ns), call.neAlpha, neb))
       => neb \in Enumerated

\* C4 happens: an edge with both panels and a partner on the negative one only
C4_Witness ==
  /\ pc = "indices"
  /\ nebOut.count = 5
  /\ \E neb \in EdgesOf(Surf(G, call.ns)) :
       LET Ea == Surf(G, call.ns).Edges[call.neAlpha]
           Eb == Surf(G, call.ns).Edges[neb]
       IN  /\ Ea.iPPanel \notin PanelsOf(Eb)
           /\ Ea.iMPanel \in PanelsOf(Eb)
           /\ neb \in Enumerated

(***************************************************************************)
(* GetOPFT (OPFT.cc): the overlap PFT of one surface.                      *)
(***************************************************************************)
ZVAC == 377
NUMPFT == 7

\* HVector::GetEntry(n) and HMatrix::GetEntry(nr, nc)
GetEntry(V, n) == V[n]
GetEntry2(M, nr, nc) == M[nr][nc]
\* MatProp::GetEpsMu(Omega, &Eps, &Mu) of region nr
GetEpsMu(g, nr) == g.RegionMPs[nr]

TotalBFs(g) ==
  g.BFIndexOffset[g.NumSurfaces - 1] + NumBFs(g.Surfaces[g.NumSurfaces - 1])

\* the current vector, the excitation vector and the current-correlation
\* matrix a caller may pass, and what a read through a null matrix pointer
\* finds if it does not fault
KNVectors(g) == {[n \in 0..(TotalBFs(g) - 1) |-> C(<<((n * n) % 5) - 2, 1>>, <<(n % 3) - 1, 1>>)]}
RHSVectors(g) == {[n \in 0..(TotalBFs(g) - 1) |-> C(<<(n % 4) - 1, 1>>, <<(((n * n + n) \div 2) % 3) - 1, 1>>)]}
RytovMatrices(g) == {[nr \in 0..(TotalBFs(g) - 1) |-> [nc \in 0..(TotalBFs(g) - 1) |-> C(<<((nr + 2 * nc) % 3) - 1, 1>>, <<(nr * nc) % 2, 1>>)]]}
AtNull(g) == [nr \in 0..(TotalBFs(g) - 1) |-> [nc \in 0..(TotalBFs(g) - 1) |-> C(<<1 + (nr % 2), 1>>, <<(nc % 2) - 1, 1>>)]]
Omegas == {CI(1), CI(2)}

\* what the caller's PFT vector and ByEdge arrays hold before the call
StalePFT(n) == [i \in 0..(n - 1) |-> <<9, 1>>]
StaleByEdge(NE) ==
  { NULL,
    [nq \in 0..(NUMPFT - 1) |-> [ne \in 0..(NE - 1) |-> <<5 + nq, 1>>]],
    [nq \in 0..(NUMPFT - 1) |->
       IF nq \in {0, 3} THEN [ne \in 0..(NE - 1) |-> <<5, 1>>] ELSE NULL] }

\* memset(A, 0, n*sizeof(double))
ZeroFirst(A, n) == [i \in DOMAIN A |-> IF i < n THEN <<0, 1>> ELSE A[i]]
\* lines 293-297 left out: the arrays keep what they held
ZeroByEdge_Skipped(BE, NE) == BE
\* lines 293-297 (part_000: 486-490)
ZeroByEdge(BE, NE) ==
  IF BE = NULL THEN NULL
  ELSE [nq \in 0..(NUMPFT - 1) |->
          IF BE[nq] = NULL THEN NULL ELSE ZeroFirst(BE[nq], NE)]
\* the addition made at index 0 of each array, whichever edge nea is
AddByEdge_AtFirst(BE, nea, d) ==
  IF BE = NULL THEN NULL
  ELSE [nq \in 0..(NUMPFT - 1) |->
          IF BE[nq] = NULL THEN NULL
          ELSE [BE[nq] EXCEPT ![0] = RAdd(@, d[nq])]]

\* the test of ByEdge[nq] left out: the addition is made through each of
\* the seven pointers
AddByEdge_NoNullTest(BE, nea, d) ==
  IF BE = NULL THEN NULL
  ELSE [nq \in 0..(NUMPFT - 1) |->
          IF BE[nq] = NULL THEN [ne \in {nea} |-> d[nq]]
          ELSE [BE[nq] EXCEPT ![nea] = RAdd(@, d[nq])]]
\* if (ByEdge) { if (ByEdge[nq]) ByEdge[nq][nea] += d[nq]; }
AddByEdge(BE, nea, d) ==
  IF BE = NULL THEN NULL
  ELSE [nq \in 0..(NUMPFT - 1) |->
          IF BE[nq] = NULL THEN NULL
          ELSE [BE[nq] EXCEPT ![nea] = RAdd(@, d[nq])]]

OPFT_BadIndex(g, SurfaceIndex) ==
  SurfaceIndex < 0 \/ SurfaceIndex >= g.NumSurfaces

\* line 272 with the count of EPPFT's PFT vector
OPFT_UnknownSurfacePFT_NUMPFT(pft) == ZeroFirst(pft, NUMPFT)
\* line 272: memset(PFT, 0, 8*sizeof(double))
OPFT_UnknownSurfacePFT(pft) == ZeroFirst(pft, 8)

\* the products taken from the matrix whenever one is supplied, from the
\* vector otherwise
OPFT_CurrentProducts_MatrixFirst(S, Offset, KNVector, RytovMatrix, nea, neb) ==
  IF RytovMatrix /= NULL
  THEN [KK |-> GetEntry2(RytovMatrix, Offset + 2 * neb + 0, Offset + 2 * nea + 0),
        KN |-> GetEntry2(RytovMatrix, Offset + 2 * neb + 1, Offset + 2 * nea + 0),
        NK |-> GetEntry2(RytovMatrix, Offset + 2 * neb + 0, Offset + 2 * nea + 1),
        NN |-> GetEntry2(RytovMatrix, Offset + 2 * neb + 1, Offset + 2 * nea + 1)]
  ELSE IF S.IsPEC
  THEN [KK |-> CMul(conj(GetEntry(KNVector, Offset + nea)),
                    GetEntry(KNVector, Offset + neb)),
        KN |-> CZero, NK |-> CZero, NN |-> CZero]
  ELSE [KK |-> CMul(conj(GetEntry(KNVector, Offset + 2 * nea + 0)),
                    GetEntry(KNVector, Offset + 2 * neb + 0)),
        KN |-> CMul(conj(GetEntry(KNVector, Offset + 2 * nea + 0)),
                    CScale(<<-ZVAC, 1>>, GetEntry(KNVector, Offset + 2 * neb + 1))),
        NK |-> CMul(conj(CScale(<<-ZVAC, 1>>, GetEntry(KNVector, Offset + 2 * nea + 1))),
                    GetEntry(KNVector, Offset + 2 * neb + 0)),
        NN |-> CMul(conj(CScale(<<-ZVAC, 1>>, GetEntry(KNVector, Offset + 2 * nea + 1))),
                    CScale(<<-ZVAC, 1>>, GetEntry(KNVector, Offset + 2 * neb + 1)))]

\* lines 321-347: the products of the current coefficients of the pair
OPFT_CurrentProducts(S, Offset, KNVector, RytovMatrix, nea, neb) ==
  IF KNVector /= NULL /\ S.IsPEC
  THEN [KK |-> CMul(conj(GetEntry(KNVector, Offset + nea)),
                    GetEntry(KNVector, Offset + neb)),
        KN |-> CZero, NK |-> CZero, NN |-> CZero]
  ELSE IF KNVector /= NULL /\ ~S.IsPEC
  THEN LET kAlpha == GetEntry(KNVector, Offset + 2 * nea + 0)
           nAlpha == CScale(<<-ZVAC, 1>>, GetEntry(KNVector, Offset + 2 * nea + 1))
           kBeta  == GetEntry(KNVector, Offset + 2 * neb + 0)
           nBeta  == CScale(<<-ZVAC, 1>>, GetEntry(KNVector, Offset + 2 * neb + 1))
       IN  [KK |-> CMul(conj(kAlpha), kBeta),
            KN |-> CMul(conj(kAlpha), nBeta),
            NK |-> CMul(conj(nAlpha), kBeta),
            NN |-> CMul(conj(nAlpha), nBeta)]
  ELSE [KK |-> GetEntry2(RytovMatrix, Offset + 2 * neb + 0, Offset + 2 * nea + 0),
        KN |-> GetEntry2(RytovMatrix, Offset + 2 * neb + 1, Offset + 2 * nea + 0),
        NK |-> GetEntry2(RytovMatrix, Offset + 2 * neb + 0, Offset + 2 * nea + 1),
        NN |-> GetEntry2(RytovMatrix, Offset + 2 * neb + 1, Offset + 2 * nea + 1)]

\* lines 357-385: one component of dF or dTau from its three overlaps
OPFT_dFT(KKZZNN, NKmKN, k2, Omega, Bullet, NablaNabla, TimesNabla) ==
  RMul(RMul(<<1, 4>>, TENTHIRDS),
       real(CAdd(CMul(CNeg(KKZZNN),
                      CSub(CR(Bullet), CDiv(CR(NablaNabla), k2))),
                 CDiv(CScale(TimesNabla, CScale(<<2, 1>>, NKmKN)),
                      CMul(II, Omega)))))

\* lines 353-385: dPAbs, dF[0..2], dTau[0..2] as d[0], d[1..3], d[4..6]
OPFT_dPFT7(KNmNK, KKZZNN, NKmKN, k2, Omega, Ov) ==
  [nq \in 0..(NUMPFT - 1) |->
     IF nq = 0
     THEN RMul(<<1, 4>>, real(CScale(Ov[OVERLAP_CROSS], KNmNK)))
     ELSE IF nq <= 3
     THEN OPFT_dFT(KKZZNN, NKmKN, k2, Omega,
                   Ov[OVERLAP_BULLET_X + 3 * (nq - 1)],
                   Ov[OVERLAP_NABLANABLA_X + 3 * (nq - 1)],
                   Ov[OVERLAP_TIMESNABLA_X + 3 * (nq - 1)])
     ELSE OPFT_dFT(KKZZNN, NKmKN, k2, Omega,
                   Ov[OVERLAP_RXBULLET_X + 3 * (nq - 4)],
                   Ov[OVERLAP_RXNABLANABLA_X + 3 * (nq - 4)],
                   Ov[OVERLAP_RXTIMESNABLA_X + 3 * (nq - 4)])]
OPFT_dPFT(P, ZZ, k2, Omega, Ov) ==
  OPFT_dPFT7(CSub(P.KN, P.NK), CAdd(CMul(P.KK, ZZ), CDiv(P.NN, ZZ)),
             CSub(P.NK, P.KN), k2, Omega, Ov)

\* lines 434-446, the body of the extinction loop from edge ne on
RECURSIVE OPFT_ExtinctionLoop(_, _, _, _, _, _, _)
OPFT_ExtinctionLoop(S, Offset, KNVector, RHS, ne, nbf, Extinction) ==
  IF ne >= S.NumEdges THEN Extinction
  ELSE IF S.IsPEC
  THEN OPFT_ExtinctionLoop(S, Offset, KNVector, RHS, ne + 1, nbf + 1,
         RAdd(Extinction,
              RMul(<<1, 2>>, real(CMul(conj(GetEntry(KNVector, Offset + nbf)),
                                       CScale(<<-ZVAC, 1>>, GetEntry(RHS, Offset + nbf)))))))
  ELSE OPFT_ExtinctionLoop(S, Offset, KNVector, RHS, ne + 1, nbf + 2,
         RAdd(RAdd(Extinction,
              RMul(<<1, 2>>, real(CMul(conj(GetEntry(KNVector, Offset + nbf)),
                                       CScale(<<-ZVAC, 1>>, GetEntry(RHS, Offset + nbf)))))),
              RMul(<<1, 2>>, real(CMul(conj(CScale(<<-ZVAC, 1>>, GetEntry(KNVector, Offset + nbf + 1))),
                                       CScale(<<-1, 1>>, GetEntry(RHS, Offset + nbf + 1)))))))

\* the extinction loop stepping nbf by one on every surface
OPFT_Extinction_ElectricStride(S, Offset, KNVector, RHS) ==
  OPFT_ExtinctionLoop([S EXCEPT !.IsPEC = TRUE], Offset, KNVector, RHS, 0, 0, <<0, 1>>)
\* lines 433-446: Extinction
OPFT_Extinction(S, Offset, KNVector, RHS) ==
  OPFT_ExtinctionLoop(S, Offset, KNVector, RHS, 0, 0, <<0, 1>>)

\* lines 419-448: the PFT vector on return
OPFT_WritePFT(S, Offset, KNVector, RHS, Sums) ==
  [i \in 0..7 |->
     IF i = 0 THEN Sums[0]
     ELSE IF i = 1
     THEN IF KNVector /= NULL /\ RHS /= NULL
          THEN RSub(OPFT_Extinction(S, Offset, KNVector, RHS), Sums[0])
          ELSE <<0, 1>>
     ELSE Sums[i - 1]]

\* lines 277-288 and 302: the locals on entry to the loop over nea
OPFT_Locals(S, Offset, Omega, EpsMu) ==
  [Offset |-> Offset,
   NE |-> S.NumEdges,
   ZZ |-> CMul(CI(ZVAC), CSqrt(CDiv(EpsMu.Mu, EpsMu.Eps))),
   k2 |-> CMul(CMul(Omega, Omega), CMul(EpsMu.Eps, EpsMu.Mu)),
   Sums |-> [nq \in 0..(NUMPFT - 1) |-> <<0, 1>>],   \* PAbs, Fx..Fz, Taux..Tauz
   nea |-> 0, nneb |-> 0, nebCount |-> 0,
   nebArray |-> [i \in 0..4 |-> Unwritten]]

InitOPFTOn(gs) ==
  /\ G \in gs
  /\ \E ns \in -1..G.NumSurfaces, Omega \in Omegas :
       \E KNVector \in KNVectors(G) \cup {NULL}, RHS \in RHSVectors(G) \cup {NULL},
          RytovMatrix \in RytovMatrices(G) \cup {NULL} :
         /\ call = [fn |-> "GetOPFT", SurfaceIndex |-> ns, Omega |-> Omega,
                    KNVector |-> KNVector, RHS |-> RHS, RytovMatrix |-> RytovMatrix]
         /\ ByEdge \in StaleByEdge(IF OPFT_BadIndex(G, ns) THEN G.Surfaces[0].NumEdges
                                   ELSE G.Surfaces[ns].NumEdges)
  /\ PFT = StalePFT(8)
  /\ pc = "call" /\ loc = Unused
  /\ warnings = 0 /\ reads = {}
  /\ Overlaps = Unused /\ nebOut = Unused /\ me = Unused

InitOPFT == InitOPFTOn(Geometries)

\* lines 271-275
OPFT_UnknownSurface ==
  /\ pc = "call" /\ call.fn = "GetOPFT"
  /\ OPFT_BadIndex(G, call.SurfaceIndex)
  /\ PFT' = OPFT_UnknownSurfacePFT(PFT)
  /\ warnings' = warnings + 1
  /\ pc' = "done"
  /\ UNCHANGED <<G, call, ByEdge, loc, reads, Overlaps, nebOut, me>>

\* lines 277-302
OPFT_Enter ==
  /\ pc = "call" /\ call.fn = "GetOPFT"
  /\ ~OPFT_BadIndex(G, call.SurfaceIndex)
  /\ loc' = OPFT_Locals(G.Surfaces[call.SurfaceIndex],
                        G.BFIndexOffset[call.SurfaceIndex], call.Omega,
                        GetEpsMu(G, G.Surfaces[call.SurfaceIndex].RegionIndices[0]))
  /\ reads' = reads \cup {"Surfaces", "BFIndexOffset", "RegionMPs"}
  /\ ByEdge' = ZeroByEdge(ByEdge, G.Surfaces[call.SurfaceIndex].NumEdges)
  /\ pc' = "nea"
  /\ UNCHANGED <<G, call, PFT, warnings, Overlaps, nebOut, me>>

\* lines 303-311: the next edge nea and its nebArray
OPFT_NextEdge ==
  /\ pc = "nea" /\ call.fn = "GetOPFT"
  /\ loc.nea < loc.NE
  /\ \E r \in {GetOverlappingEdgeIndices(G.Surfaces[call.SurfaceIndex], loc.nea, loc.nebArray)} :
       loc' = [loc EXCEPT !.nebArray = r.nebArray, !.nebCount = r.count, !.nneb = 0]
  /\ pc' = "neb"
  /\ UNCHANGED <<G, call, PFT, ByEdge, warnings, reads, Overlaps, nebOut, me>>

\* lines 312-412: one pass of the loop over nneb, reading the current state
\* from KNVector or else from the matrix M
OPFT_PairStep(KNVector, M) ==
  /\ \E d \in {OPFT_dPFT(OPFT_CurrentProducts(G.Surfaces[call.SurfaceIndex], loc.Offset,
                                               KNVector, M, loc.nea, loc.nebArray[loc.nneb]),
                         loc.ZZ, loc.k2, call.Omega,
                         GetOverlaps(G.Surfaces[call.SurfaceIndex], loc.nea,
                                     loc.nebArray[loc.nneb], ZeroOverlaps))} :
       /\ loc' = [loc EXCEPT
                    !.Sums = [nq \in 0..(NUMPFT - 1) |-> RAdd(loc.Sums[nq], d[nq])],
                    !.nneb = IF loc.nneb + 1 < loc.nebCount THEN loc.nneb + 1 ELSE 0,
                    !.nea = IF loc.nneb + 1 < loc.nebCount THEN loc.nea ELSE loc.nea + 1]
       /\ ByEdge' = AddByEdge(ByEdge, loc.nea, d)
  /\ pc' = IF loc.nneb + 1 < loc.nebCount THEN "neb" ELSE "nea"
  /\ UNCHANGED <<G, call, PFT, warnings, Overlaps, nebOut, me>>

\* line 314: neb = nebArray[nneb] is the index of an edge of the surface
OPFT_NebInRange ==
  loc.nebArray[loc.nneb] \in EdgesOf(G.Surfaces[call.SurfaceIndex])

OPFT_Pair ==
  /\ pc = "neb" /\ call.fn = "GetOPFT"
  /\ OPFT_NebInRange
  /\ call.KNVector /= NULL \/ call.RytovMatrix /= NULL
  /\ reads' = reads \cup {IF call.KNVector /= NULL THEN "KNVector" ELSE "RytovMatrix"}
  /\ OPFT_PairStep(call.KNVector, call.RytovMatrix)

\* lines 341-347 with KNVector and RytovMatrix both null: GetEntry through
\* the null pointer is undefined; it faults, or it reads what is there
OPFT_PairNull ==
  /\ pc = "neb" /\ call.fn = "GetOPFT"
  /\ OPFT_NebInRange
  /\ call.KNVector = NULL /\ call.RytovMatrix = NULL
  /\ reads' = reads \cup {"RytovMatrix"}
  /\ \/ /\ pc' = "fault"
        /\ UNCHANGED <<G, call, PFT, ByEdge, loc, warnings, Overlaps, nebOut, me>>
     \/ OPFT_PairStep(NULL, AtNull(G))

\* lines 419-448
OPFT_Finish ==
  /\ pc = "nea" /\ call.fn = "GetOPFT"
  /\ loc.nea >= loc.NE
  /\ PFT' = OPFT_WritePFT(G.Surfaces[call.SurfaceIndex], loc.Offset,
                          call.KNVector, call.RHS, loc.Sums)
  /\ reads' = reads \cup (IF call.KNVector /= NULL /\ call.RHS /= NULL
                          THEN {"KNVector", "RHS"} ELSE {})
  /\ pc' = "done"
  /\ UNCHANGED <<G, call, ByEdge, loc, warnings, Overlaps, nebOut, me>>

NextOPFT ==
  \/ OPFT_UnknownSurface \/ OPFT_Enter \/ OPFT_NextEdge
  \/ OPFT_Pair \/ OPFT_PairNull \/ OPFT_Finish
SpecOPFT == InitOPFT /\ [][NextOPFT]_vars

\* what a pair contributes when its overlaps and current coefficients were
\* read outside the arrays: nothing, or some value
OPFT_WildTerms ==
  { [nq \in 0..(NUMPFT - 1) |-> <<0, 1>>], [nq \in 0..(NUMPFT - 1) |-> <<1, 1>>] }

\* lines 312-412 with neb = nebArray[nneb] not an edge index (the slot of an
\* exterior edge): GetOverlaps reads Edges[neb] outside the array and
\* dereferences it, the current coefficients are read at Offset + neb or
\* Offset + 2*neb; undefined: it faults, or the pass goes on with what was
\* read
OPFT_PairWild ==
  /\ pc = "neb" /\ call.fn = "GetOPFT"
  /\ ~OPFT_NebInRange
  /\ reads' = reads \cup {"Edges"}
  /\ \/ /\ pc' = "fault"
        /\ UNCHANGED <<G, call, PFT, ByEdge, loc, warnings, Overlaps, nebOut, me>>
     \/ /\ \E d \in OPFT_WildTerms :
             /\ loc' = [loc EXCEPT
                          !.Sums = [nq \in 0..(NUMPFT - 1) |-> RAdd(loc.Sums[nq], d[nq])],
                          !.nneb = IF loc.nneb + 1 < loc.nebCount THEN loc.nneb + 1 ELSE 0,
                          !.nea = IF loc.nneb + 1 < loc.nebCount THEN loc.nea ELSE loc.nea + 1]
             /\ ByEdge' = AddByEdge(ByEdge, loc.nea, d)
        /\ pc' = IF loc.nneb + 1 < loc.nebCount THEN "neb" ELSE "nea"
        /\ UNCHANGED <<G, call, PFT, warnings, Overlaps, nebOut, me>>

\* GetOPFT also called on an open surface with exterior edges
NextOPFT_Exterior == NextOPFT \/ OPFT_PairWild
SpecOPFT_Exterior ==
  InitOPFTOn(Geometries \cup {Geometry(<<SheetExterior(FALSE, 1)>>)})
    /\ [][NextOPFT_Exterior]_vars


(***************************************************************************)
(* EPPFT matrix elements between two RWG functions (EPPFT.cc).             *)
(***************************************************************************)
\* a 3-array and a sum over Mu = 0, 1, 2
Tab3(F) == (0 :> F[0]) @@ (1 :> F[1]) @@ (2 :> F[2])
Sum3(F) == CAdd(CAdd(F[0], F[1]), F[2])
RSum3(F) == RAdd(RAdd(F[0], F[1]), F[2])

\* GetReducedPotentials_Nearby: the potentials a, dp and da of the half
\* basis function (ns, np, iQ) at X0
GetReducedPotentials_Nearby(g, ns, np, iQ, X0, k) ==
  [a  |-> Tab3([Mu \in 0..2 |-> C(RAdd(X0[Mu], <<np + 1, 1>>), <<iQ - Mu, 1>>)]),
   dp |-> Tab3([Mu \in 0..2 |-> CMul(k, C(<<Mu - np, 1>>, X0[(Mu + 1) % 3]))]),
   da |-> [i \in 0..2 |-> [j \in 0..2 |->
             C(RMulI(j + 1, X0[i]), <<np + i - iQ, 1>>)]]]

\* lines 72-78
ReducedFields(P, k2) ==
  [e |-> Tab3([Mu \in 0..2 |-> CAdd(P.a[Mu], CDiv(P.dp[Mu], k2))]),
   h |-> Tab3([Mu \in 0..2 |-> CSub(P.da[(Mu + 1) % 3][(Mu + 2) % 3],
                               P.da[(Mu + 2) % 3][(Mu + 1) % 3])])]
GetReducedFields_Nearby(g, ns, np, iQ, X0, k) ==
  ReducedFields(GetReducedPotentials_Nearby(g, ns, np, iQ, X0, k), CMul(k, k))

\* GetTCR(Order, &NumPts): the triangle cubature rule, (u, v, w) per point
GetTCR(Order) ==
  IF Order <= 1
  THEN [NumPts |-> 1, TCR |-> ArrOf(<< <<1, 3>>, <<1, 3>>, <<1, 2>> >>)]
  ELSE [NumPts |-> 3,
        TCR |-> ArrOf(<< <<1, 2>>, <<0, 1>>, <<1, 6>>,
                         <<1, 2>>, <<1, 2>>, <<1, 6>>,
                         <<0, 1>>, <<1, 2>>, <<1, 6>> >>)]

\* lines 148-156: the ten outputs set to zero
ZeroME ==
  [be |-> CZero, bh |-> CZero,
   divbe |-> Tab3([Mu \in 0..2 |-> CZero]), divbh |-> Tab3([Mu \in 0..2 |-> CZero]),
   bxe |-> Tab3([Mu \in 0..2 |-> CZero]), bxh |-> Tab3([Mu \in 0..2 |-> CZero]),
   divbrxe |-> Tab3([Mu \in 0..2 |-> CZero]), divbrxh |-> Tab3([Mu \in 0..2 |-> CZero]),
   rxbxe |-> Tab3([Mu \in 0..2 |-> CZero]), rxbxh |-> Tab3([Mu \in 0..2 |-> CZero])]

\* lines 132-135 with PM and MP taken from the transposed entries
Cub_Masks_Transposed(OmitPanelPair) ==
  [PP |-> IF OmitPanelPair[0][0] THEN <<0, 1>> ELSE <<1, 1>>,
   PM |-> IF OmitPanelPair[1][0] THEN <<0, 1>> ELSE <<-1, 1>>,
   MP |-> IF OmitPanelPair[0][1] THEN <<0, 1>> ELSE <<-1, 1>>,
   MM |-> IF OmitPanelPair[1][1] THEN <<0, 1>> ELSE <<1, 1>>]
\* lines 132-135
Cub_Masks(OmitPanelPair) ==
  [PP |-> IF OmitPanelPair[0][0] THEN <<0, 1>> ELSE <<1, 1>>,
   PM |-> IF OmitPanelPair[0][1] THEN <<0, 1>> ELSE <<-1, 1>>,
   MP |-> IF OmitPanelPair[1][0] THEN <<0, 1>> ELSE <<-1, 1>>,
   MM |-> IF OmitPanelPair[1][1] THEN <<0, 1>> ELSE <<1, 1>>]

\* lines 173-191: the points, their offsets from X0 and the four near fields
Cub_PointFields(g, nsb, Eb, k, X0, w, bPlus, bMinus, XPlus, XMinus) ==
  [w |-> w, bPlus |-> bPlus, bMinus |-> bMinus,
   XPmX0 |-> Tab3([Mu \in 0..2 |-> RSub(XPlus[Mu], X0[Mu])]),
   XMmX0 |-> Tab3([Mu \in 0..2 |-> RSub(XMinus[Mu], X0[Mu])]),
   PP |-> GetReducedFields_Nearby(g, nsb, Eb.iPPanel, Eb.PIndex, XPlus, k),
   PM |-> GetReducedFields_Nearby(g, nsb, Eb.iMPanel, Eb.MIndex, XPlus, k),
   MP |-> GetReducedFields_Nearby(g, nsb, Eb.iPPanel, Eb.PIndex, XMinus, k),
   MM |-> GetReducedFields_Nearby(g, nsb, Eb.iMPanel, Eb.MIndex, XMinus, k)]
Cub_PointX(g, nsb, Eb, k, QP, QM, X0, w, bPlus, bMinus) ==
  Cub_PointFields(g, nsb, Eb, k, X0, w, bPlus, bMinus,
                  Tab3([Mu \in 0..2 |-> RAdd(bPlus[Mu], QP[Mu])]),
                  Tab3([Mu \in 0..2 |-> RAdd(bMinus[Mu], QM[Mu])]))
\* lines 162-191: cubature point (u, v, w) of the rule, u before u += v
Cub_Point(g, nsb, Ea, Eb, k, QP, V1, V2, QM, X0, u, v, w) ==
  Cub_PointX(g, nsb, Eb, k, QP, QM, X0, RMul(w, Ea.Length),
    Tab3([Mu \in 0..2 |-> RAdd(RMul(RAdd(u, v), RSub(V1[Mu], QP[Mu])),
                          RMul(v, RSub(V2[Mu], V1[Mu])))]),
    Tab3([Mu \in 0..2 |-> RAdd(RMul(RAdd(u, v), RSub(V1[Mu], QM[Mu])),
                          RMul(v, RSub(V2[Mu], V1[Mu])))]))

\* PP*a + PM*b + MP*c + MM*d
Mix4(M, a, b, c, d) ==
  CAdd(CAdd(CAdd(CScale(M.PP, a), CScale(M.PM, b)), CScale(M.MP, c)), CScale(M.MM, d))
\* b[MP1]*f[MP2] - b[MP2]*f[MP1]
Cross(b, f, Mu) ==
  CSub(CScale(b[(Mu + 1) % 3], f[(Mu + 2) % 3]), CScale(b[(Mu + 2) % 3], f[(Mu + 1) % 3]))
\* b[Mu]*Xdotf - f[Mu]*Xdotb
Triple(b, f, Xdotf, Xdotb, Mu) ==
  CSub(CScale(b[Mu], Xdotf), CScale(Xdotb, f[Mu]))

\* lines 215-251: the ten sums after the point D
Cub_Add(M, D, ePlus, eMinus, hPlus, hMinus, XPmX0dotb, XMmX0dotb, XPmX0dote, XMmX0dote, XPmX0doth, XMmX0doth, acc) ==
  [be |-> CAdd(acc.be, Sum3([Mu \in 0..2 |->
            CScale(D.w, CSub(CScale(D.bPlus[Mu], ePlus[Mu]),
                             CScale(D.bMinus[Mu], eMinus[Mu])))])),
   bh |-> CAdd(acc.bh, Sum3([Mu \in 0..2 |->
            CScale(D.w, CSub(CScale(D.bPlus[Mu], hPlus[Mu]),
                             CScale(D.bMinus[Mu], hMinus[Mu])))])),
   divbe |-> Tab3([Mu \in 0..2 |-> CAdd(acc.divbe[Mu],
               CScale(RMulI(2, D.w),
                      Mix4(M, D.PP.e[Mu], D.PM.e[Mu], D.MP.e[Mu], D.MM.e[Mu])))]),
   divbh |-> Tab3([Mu \in 0..2 |-> CAdd(acc.divbh[Mu],
               CScale(RMulI(2, D.w),
                      Mix4(M, D.PP.h[Mu], D.PM.h[Mu], D.MP.h[Mu], D.MM.h[Mu])))]),
   bxe |-> Tab3([Mu \in 0..2 |-> CAdd(acc.bxe[Mu],
             CScale(D.w, Mix4(M, Cross(D.bPlus, D.PP.e, Mu), Cross(D.bPlus, D.PM.e, Mu),
                                 Cross(D.bMinus, D.MP.e, Mu), Cross(D.bMinus, D.MM.e, Mu))))]),
   bxh |-> Tab3([Mu \in 0..2 |-> CAdd(acc.bxh[Mu],
             CScale(D.w, CSub(Cross(D.bPlus, hPlus, Mu), Cross(D.bMinus, hMinus, Mu))))]),
   divbrxe |-> Tab3([Mu \in 0..2 |-> CAdd(acc.divbrxe[Mu],
                 CScale(D.w, CSub(Cross(D.XPmX0, ePlus, Mu), Cross(D.XMmX0, eMinus, Mu))))]),
   divbrxh |-> Tab3([Mu \in 0..2 |-> CAdd(acc.divbrxh[Mu],
                 CScale(D.w, CSub(Cross(D.XPmX0, hPlus, Mu), Cross(D.XMmX0, hMinus, Mu))))]),
   rxbxe |-> Tab3([Mu \in 0..2 |-> CAdd(acc.rxbxe[Mu],
               CScale(D.w, CSub(Triple(D.bPlus, ePlus, XPmX0dote, XPmX0dotb, Mu),
                                Triple(D.bMinus, eMinus, XMmX0dote, XMmX0dotb, Mu))))]),
   rxbxh |-> Tab3([Mu \in 0..2 |-> CAdd(acc.rxbxh[Mu],
               CScale(D.w, CSub(Triple(D.bPlus, hPlus, XPmX0doth, XPmX0dotb, Mu),
                                Triple(D.bMinus, hMinus, XMmX0doth, XMmX0dotb, Mu))))])]

\* lines 197-210: the dot products with the fields
Cub_Dots(M, D, ePlus, eMinus, hPlus, hMinus, acc) ==
  Cub_Add(M, D, ePlus, eMinus, hPlus, hMinus,
    RSum3([Mu \in 0..2 |-> RMul(D.XPmX0[Mu], D.bPlus[Mu])]),
    RSum3([Mu \in 0..2 |-> RMul(D.XMmX0[Mu], D.bMinus[Mu])]),
    Sum3([Mu \in 0..2 |-> CScale(D.XPmX0[Mu], ePlus[Mu])]),
    Sum3([Mu \in 0..2 |-> CScale(D.XMmX0[Mu], eMinus[Mu])]),
    Sum3([Mu \in 0..2 |-> CScale(D.XPmX0[Mu], hPlus[Mu])]),
    Sum3([Mu \in 0..2 |-> CScale(D.XMmX0[Mu], hMinus[Mu])]),
    acc)

\* lines 196-251: what the point D adds to the ten sums acc
Cub_Combine(M, D, acc) ==
  Cub_Dots(M, D,
    Tab3([Mu \in 0..2 |-> CSub(D.PP.e[Mu], D.PM.e[Mu])]),
    Tab3([Mu \in 0..2 |-> CSub(D.MP.e[Mu], D.MM.e[Mu])]),
    Tab3([Mu \in 0..2 |-> CSub(D.PP.h[Mu], D.PM.h[Mu])]),
    Tab3([Mu \in 0..2 |-> CSub(D.MP.h[Mu], D.MM.h[Mu])]),
    acc)

\* the point np of the rule R for the functions Ea, Eb of surface S
Cub_PointOf(g, nsb, S, Ea, Eb, k, R, np) ==
  Cub_Point(g, nsb, Ea, Eb, k,
            S.Vertices[Ea.iQP], S.Vertices[Ea.iV1], S.Vertices[Ea.iV2],
            S.Vertices[Ea.iQM], Vec(0, 0, 0),
            R.TCR[3 * np], R.TCR[3 * np + 1], R.TCR[3 * np + 2])

\* lines 157-253: the loop over the cubature points from np on
RECURSIVE Cub_Loop(_, _, _, _, _, _, _, _, _, _)
Cub_Loop(g, nsb, S, Ea, Eb, k, M, R, np, acc) ==
  IF np >= R.NumPts THEN acc
  ELSE Cub_Loop(g, nsb, S, Ea, Eb, k, M, R, np + 1,
                Cub_Combine(M, Cub_PointOf(g, nsb, S, Ea, Eb, k, R, np), acc))

\* GetEPPFTMatrixElements_Cubature: the ten outputs on return
GetEPPFTMatrixElements_Cubature(g, nsa, nsb, nea, neb, k, OmitPanelPair, Order) ==
  Cub_Loop(g, nsb, g.Surfaces[nsa], g.Surfaces[nsa].Edges[nea],
           g.Surfaces[nsa].Edges[neb], k, Cub_Masks(OmitPanelPair),
           GetTCR(Order), 0, ZeroME)

\* what the ten output arrays hold before a call
StaleME ==
  [be |-> II, bh |-> II,
   divbe |-> Tab3([Mu \in 0..2 |-> II]), divbh |-> Tab3([Mu \in 0..2 |-> II]),
   bxe |-> Tab3([Mu \in 0..2 |-> II]), bxh |-> Tab3([Mu \in 0..2 |-> II]),
   divbrxe |-> Tab3([Mu \in 0..2 |-> II]), divbrxh |-> Tab3([Mu \in 0..2 |-> II]),
   rxbxe |-> Tab3([Mu \in 0..2 |-> II]), rxbxh |-> Tab3([Mu \in 0..2 |-> II])]
Wavenumbers == {C(<<1, 1>>, <<1, 2>>)}
Orders == {1, 4}
\* the edges of S that have both a positive and a negative panel
FullEdgesOf(S) == {ne \in EdgesOf(S) : S.Edges[ne].iMPanel /= -1}

InitME ==
  /\ G \in Geometries
  /\ \E ns \in 0..(G.NumSurfaces - 1), k \in Wavenumbers, Order \in Orders :
       \E nea \in FullEdgesOf(G.Surfaces[ns]), neb \in FullEdgesOf(G.Surfaces[ns]) :
         \E OmitPanelPair \in [0..1 -> [0..1 -> BOOLEAN]] :
           call = [fn |-> "GetEPPFTMatrixElements_Cubature", nsa |-> ns, nsb |-> ns,
                   nea |-> nea, neb |-> neb, k |-> k,
                   OmitPanelPair |-> OmitPanelPair, Order |-> Order]
  /\ me = StaleME
  /\ pc = "call"
  /\ PFT = Unused /\ ByEdge = Unused /\ loc = Unused
  /\ warnings = 0 /\ reads = {}
  /\ Overlaps = Unused /\ nebOut = Unused

CallCubature ==
  /\ pc = "call" /\ call.fn = "GetEPPFTMatrixElements_Cubature"
  /\ me' = GetEPPFTMatrixElements_Cubature(G, call.nsa, call.nsb, call.nea, call.neb,
                                           call.k, call.OmitPanelPair, call.Order)
  /\ pc' = "done"
  /\ UNCHANGED <<G, call, PFT, ByEdge, loc, warnings, reads, Overlaps, nebOut>>

NextME == CallCubature
SpecME == InitME /\ [][NextME]_vars

(***************************************************************************)
(* GetEPPFTMatrixElements (EPPFT.cc): cubature plus the Taylor-Duffy       *)
(* values of the panel pairs that have vertices in common.                 *)
(***************************************************************************)
\* AssessPanelPair(Sa, npa, Sb, npb, &rRel, Va, Vb) on one surface: the
\* number of common vertices, and the vertices of the two panels with the
\* common ones first
AssessPanelPair(S, npa, npb) ==
  LET a == <<S.Panels[npa].VI[0], S.Panels[npa].VI[1], S.Panels[npa].VI[2]>>
      b == <<S.Panels[npb].VI[0], S.Panels[npb].VI[1], S.Panels[npb].VI[2]>>
      InA(v) == v \in {a[1], a[2], a[3]}
      InB(v) == v \in {b[1], b[2], b[3]}
      common == SelectSeq(a, InB)
      ia == common \o SelectSeq(a, LAMBDA v : ~InB(v))
      ib == common \o SelectSeq(b, LAMBDA v : ~InA(v))
  IN  [ncv |-> Len(common),
       Va |-> [i \in 0..2 |-> S.Vertices[ia[i + 1]]],
       Vb |-> [i \in 0..2 |-> S.Vertices[ib[i + 1]]]]

\* TaylorDuffy(TDArgs): Result[0..5] for the six (PIndex, KIndex) pairs
TaylorDuffy(WhichCase, k, V1, V2, V3, V2P, V3P, Q, QP, nHat) ==
  [n \in 0..5 |->
     CMul(k, C(RAdd(<<WhichCase - n, 1>>, VecDot(nHat, VecSub(Q, QP))),
               RAdd(VecDot(nHat, VecSub(V2, V2P)), VecDot(nHat, VecSub(V3, V3P)))))]

\* lines 304-306 for one direction nHat
TD_Combine(Result, k2) ==
  [divbe |-> CAdd(Result[0], CDiv(Result[1], k2)),
   divbh |-> Result[2],
   bxe   |-> CAdd(Result[3], CDiv(Result[4], k2))]
\* lines 297-307
TD_Directions(r) ==
  [divbe |-> Tab3([Mu \in 0..2 |-> r[Mu].divbe]),
   divbh |-> Tab3([Mu \in 0..2 |-> r[Mu].divbh]),
   bxe   |-> Tab3([Mu \in 0..2 |-> r[Mu].bxe])]
GetEPPFTMatrixElements_TD(Va, Qa, Vb, Qb, ncv, k) ==
  TD_Directions(Tab3([Mu \in 0..2 |->
    TD_Combine(TaylorDuffy(ncv, k, Va[0], Va[1], Va[2], Vb[1], Vb[2], Qa, Qb,
                           [i \in 0..2 |-> IF i = Mu THEN <<1, 1>> ELSE <<0, 1>>]),
               CMul(k, k))]))

\* lines 343-347
NoTD ==
  [divbeTD |-> Tab3([Mu \in 0..2 |-> CZero]),
   divbhTD |-> Tab3([Mu \in 0..2 |-> CZero]),
   bxeTD   |-> Tab3([Mu \in 0..2 |-> CZero]),
   OmitPanelPair |-> [A \in 0..1 |-> [B \in 0..1 |-> FALSE]],
   HaveTDContributions |-> FALSE]
\* lines 370-375 without 358: the Taylor-Duffy values are added and the pair
\* is left in the cubature
ME_TDAdd_NotOmitted(A, B, SignLL, Delta, td) ==
  [divbeTD |-> Tab3([Mu \in 0..2 |-> CAdd(td.divbeTD[Mu], CScale(SignLL, Delta.divbe[Mu]))]),
   divbhTD |-> Tab3([Mu \in 0..2 |-> CAdd(td.divbhTD[Mu], CScale(SignLL, Delta.divbh[Mu]))]),
   bxeTD   |-> Tab3([Mu \in 0..2 |-> CAdd(td.bxeTD[Mu], CScale(SignLL, Delta.bxe[Mu]))]),
   OmitPanelPair |-> td.OmitPanelPair,
   HaveTDContributions |-> TRUE]
\* lines 358-359 and 370-375
ME_TDAdd(A, B, SignLL, Delta, td) ==
  [divbeTD |-> Tab3([Mu \in 0..2 |-> CAdd(td.divbeTD[Mu], CScale(SignLL, Delta.divbe[Mu]))]),
   divbhTD |-> Tab3([Mu \in 0..2 |-> CAdd(td.divbhTD[Mu], CScale(SignLL, Delta.divbh[Mu]))]),
   bxeTD   |-> Tab3([Mu \in 0..2 |-> CAdd(td.bxeTD[Mu], CScale(SignLL, Delta.bxe[Mu]))]),
   OmitPanelPair |-> [td.OmitPanelPair EXCEPT ![A][B] = TRUE],
   HaveTDContributions |-> TRUE]
\* lines 355-376 with the assessment ap of the panel pair
ME_TDAssessed(S, Ea, Eb, LL, k, A, B, ap, td) ==
  IF ap.ncv > 0
  THEN ME_TDAdd(A, B, RMul(IF A = B THEN <<1, 1>> ELSE <<-1, 1>>, LL),
                GetEPPFTMatrixElements_TD(ap.Va,
                                          S.Vertices[IF A = 0 THEN Ea.iQP ELSE Ea.iQM],
                                          ap.Vb,
                                          S.Vertices[IF B = 0 THEN Eb.iQP ELSE Eb.iQM],
                                          ap.ncv, k),
                td)
  ELSE td
\* lines 349-378: the loop over (A, B) from pair number AB = 2*A + B on
RECURSIVE ME_TDLoop(_, _, _, _, _, _, _)
ME_TDLoop(S, Ea, Eb, LL, k, AB, td) ==
  IF AB >= 4 THEN td
  ELSE ME_TDLoop(S, Ea, Eb, LL, k, AB + 1,
         ME_TDAssessed(S, Ea, Eb, LL, k, AB \div 2, AB % 2,
                       AssessPanelPair(S, IF AB \div 2 = 0 THEN Ea.iPPanel ELSE Ea.iMPanel,
                                          IF AB % 2 = 0 THEN Eb.iPPanel ELSE Eb.iMPanel),
                       td))
\* lines 391-397
ME_AddTD(M, td) ==
  IF td.HaveTDContributions
  THEN [M EXCEPT !.divbe = Tab3([Mu \in 0..2 |-> CAdd(M.divbe[Mu], td.divbeTD[Mu])]),
                 !.divbh = Tab3([Mu \in 0..2 |-> CAdd(M.divbh[Mu], td.divbhTD[Mu])]),
                 !.bxe   = Tab3([Mu \in 0..2 |-> CAdd(M.bxe[Mu], td.bxeTD[Mu])])]
  ELSE M
\* lines 383-397 with the Taylor-Duffy sums td
ME_Finish(g, nsa, nsb, nea, neb, k, Order, td) ==
  ME_AddTD(GetEPPFTMatrixElements_Cubature(g, nsa, nsb, nea, neb, k,
                                           td.OmitPanelPair, Order), td)
\* lines 343-378: divbeTD, divbhTD, bxeTD, OmitPanelPair and
\* HaveTDContributions after the loop over (A, B)
ME_TDSums(g, nsa, nsb, nea, neb, k, ForceCubature) ==
  IF nsa = nsb /\ ForceCubature = FALSE
  THEN ME_TDLoop(g.Surfaces[nsa], g.Surfaces[nsa].Edges[nea], g.Surfaces[nsb].Edges[neb],
                 RMul(g.Surfaces[nsa].Edges[nea].Length, g.Surfaces[nsb].Edges[neb].Length),
                 k, 0, NoTD)
  ELSE NoTD
\* GetEPPFTMatrixElements: the ten outputs on return
GetEPPFTMatrixElements(g, nsa, nsb, nea, neb, k, Order, ForceCubature) ==
  ME_Finish(g, nsa, nsb, nea, neb, k, Order,
            ME_TDSums(g, nsa, nsb, nea, neb, k, ForceCubature))

\* the geometries of the matrix-element calls: a surface of Strip has panel
\* pairs without a common vertex
MEGeometries == Geometries \cup {Geometry(<<Strip(FALSE, 1)>>)}

\* a caller of GetEPPFTMatrixElements with two edges that have both panels;
\* the integrator takes both edges from surface nsa (lines 109-111)
InitMatrixElements ==
  /\ G \in MEGeometries
  /\ \E nsa \in 0..(G.NumSurfaces - 1), nsb \in 0..(G.NumSurfaces - 1) :
       \E nea \in FullEdgesOf(G.Surfaces[nsa]),
          neb \in FullEdgesOf(G.Surfaces[nsb]) \cap FullEdgesOf(G.Surfaces[nsa]) :
         \E k \in Wavenumbers, Order \in Orders, ForceCubature \in BOOLEAN :
           call = [fn |-> "GetEPPFTMatrixElements", nsa |-> nsa, nsb |-> nsb,
                   nea |-> nea, neb |-> neb, k |-> k, Order |-> Order,
                   ForceCubature |-> ForceCubature]
  /\ me = StaleME
  /\ pc = "call"
  /\ PFT = Unused /\ ByEdge = Unused /\ loc = Unused
  /\ warnings = 0 /\ reads = {}
  /\ Overlaps = Unused /\ nebOut = Unused

\* lines 314-399; loc keeps the Taylor-Duffy locals of the call
CallMatrixElements ==
  /\ pc = "call" /\ call.fn = "GetEPPFTMatrixElements"
  /\ \E td \in {ME_TDSums(G, call.nsa, call.nsb, call.nea, call.neb, call.k,
                           call.ForceCubature)} :
       /\ loc' = td
       /\ me' = ME_Finish(G, call.nsa, call.nsb, call.nea, call.neb, call.k,
                          call.Order, td)
  /\ pc' = "done"
  /\ UNCHANGED <<G, call, PFT, ByEdge, warnings, reads, Overlaps, nebOut>>

SpecMatrixElements == InitMatrixElements /\ [][CallMatrixElements]_vars

(***************************************************************************)
(* GetEPPFTTrace (EPPFT.cc): the equivalence-principle PFT of one surface. *)
(***************************************************************************)
\* line 418: what Surfaces[SurfaceIndex] and BFIndexOffset[SurfaceIndex]
\* find.  There is no test of the index: outside 0..NumSurfaces-1 the read
\* is undefined, and if it does not fault it finds the data of some surface.
EPPFT_SurfacesAt(g, SurfaceIndex) ==
  IF SurfaceIndex \in 0..(g.NumSurfaces - 1) THEN {SurfaceIndex}
  ELSE 0..(g.NumSurfaces - 1)

\* line 423
EPPFT_NotDefined(S) == S.IsPEC \/ S.RegionIndices[1] = -1

\* line 426 with the count taken in bytes: no whole component is cleared
EPPFT_NotDefinedPFT_Bytes(pft) == ZeroFirst(pft, NUMPFT \div 8)
\* line 426: memset(PFT, 0, NUMPFT*sizeof(double))
EPPFT_NotDefinedPFT(pft) == ZeroFirst(pft, NUMPFT)

\* lines 436-452
EPPFT_Medium(Exterior, Omega, Out, In) ==
  IF Exterior
  THEN [Sign |-> <<1, 1>>,
        k |-> CMul(Omega, CSqrt(CMul(Out.Eps, Out.Mu))),
        ZRel |-> CSqrt(CDiv(Out.Mu, Out.Eps)),
        GammaE |-> CZero, GammaM |-> CZero]
  ELSE [Sign |-> <<-1, 1>>,
        k |-> CMul(Omega, CSqrt(CMul(In.Eps, In.Mu))),
        ZRel |-> CSqrt(CDiv(In.Mu, In.Eps)),
        GammaE |-> CScale(<<ZVAC, 1>>, CSub(CDiv(CI(1), In.Eps), CDiv(CI(1), Out.Eps))),
        GammaM |-> CDiv(CSub(CDiv(CI(1), In.Mu), CDiv(CI(1), Out.Mu)), CI(ZVAC))]

\* lines 463-481
EPPFT_Prefactors(Omega, Omega2, KZ, KOZ, GammaE, GammaM) ==
  [PEE  |-> CMul(CScale(<<1, 2>>, II), KZ),
   PEM  |-> CR(<<-1, 2>>),
   PME  |-> CR(<<1, 2>>),
   PMM  |-> CMul(CScale(<<1, 2>>, II), KOZ),
   FEE1 |-> CDiv(CScale(RMul(<<-1, 2>>, TENTHIRDS), KZ), Omega),
   FEE2 |-> CR(RMulI(ZVAC, RMul(<<1, 2>>, TENTHIRDS))),
   FEM1 |-> CDiv(CR(RMul(<<1, 2>>, TENTHIRDS)), CMul(II, Omega)),
   FEM2 |-> CScale(<<ZVAC, 1>>, CMul(CScale(RMul(<<1, 2>>, TENTHIRDS), II), KOZ)),
   FME1 |-> CDiv(CR(RMul(<<-1, 2>>, TENTHIRDS)), CMul(II, Omega)),
   FME2 |-> CDiv(CMul(CScale(RMul(<<-1, 2>>, TENTHIRDS), II), KZ), CI(ZVAC)),
   FMM1 |-> CDiv(CScale(RMul(<<-1, 2>>, TENTHIRDS), KOZ), Omega),
   FMM2 |-> CR(RDivI(RMul(<<1, 2>>, TENTHIRDS), ZVAC)),
   FEE3 |-> CDiv(CScale(RMul(<<1, 4>>, TENTHIRDS), GammaE), Omega2),
   FMM3 |-> CDiv(CScale(RMul(<<1, 4>>, TENTHIRDS), GammaM), Omega2),
   FEM3 |-> CDiv(CScale(<<ZVAC, 1>>, CScale(RMul(<<-1, 4>>, TENTHIRDS), GammaM)),
                 CMul(II, Omega)),
   FME3 |-> CDiv(CScale(RMul(<<1, 4>>, TENTHIRDS), GammaE),
                 CScale(<<ZVAC, 1>>, CMul(II, Omega)))]

\* lines 418-420, 436-481 and 495: the locals on entry to the pair loop, with
\* ns the surface that Surfaces[SurfaceIndex] found
EPPFT_Locals(ns, S, Offset, Exterior, Omega, Md) ==
  [ns |-> ns, Offset |-> Offset, NE |-> S.NumEdges,
   Sign |-> Md.Sign, k |-> Md.k, Interior |-> ~Exterior,
   F |-> EPPFT_Prefactors(Omega, CMul(Omega, Omega),
                          CMul(CScale(<<ZVAC, 1>>, Md.k), Md.ZRel),
                          CDiv(Md.k, CScale(<<ZVAC, 1>>, Md.ZRel)),
                          Md.GammaE, Md.GammaM),
   Sums |-> [nq \in 0..(NUMPFT - 1) |-> <<0, 1>>],   \* PAbs, Fx..Fz, Taux..Tauz
   neab |-> 0]

\* lines 527-545: the products of the current coefficients of the pair
EPPFT_CurrentProducts(Offset, KNVector, SigmaMatrix, nea, neb) ==
  IF KNVector /= NULL
  THEN LET kAlpha == GetEntry(KNVector, Offset + 2 * nea + 0)
           nAlpha == CScale(<<-ZVAC, 1>>, GetEntry(KNVector, Offset + 2 * nea + 1))
           kBeta  == GetEntry(KNVector, Offset + 2 * neb + 0)
           nBeta  == CScale(<<-ZVAC, 1>>, GetEntry(KNVector, Offset + 2 * neb + 1))
       IN  [KK |-> CMul(conj(kAlpha), kBeta),
            KN |-> CMul(conj(kAlpha), nBeta),
            NK |-> CMul(conj(nAlpha), kBeta),
            NN |-> CMul(conj(nAlpha), nBeta)]
  ELSE [KK |-> GetEntry2(SigmaMatrix, Offset + 2 * neb + 0, Offset + 2 * nea + 0),
        KN |-> GetEntry2(SigmaMatrix, Offset + 2 * neb + 1, Offset + 2 * nea + 0),
        NK |-> GetEntry2(SigmaMatrix, Offset + 2 * neb + 0, Offset + 2 * nea + 1),
        NN |-> GetEntry2(SigmaMatrix, Offset + 2 * neb + 1, Offset + 2 * nea + 1)]

\* lines 555-565: one component of dF or dTau from its four matrix elements
EPPFT_dFT(P, F, Sign, dive, xh, divh, xe) ==
  RMul(Sign,
       real(CAdd(CAdd(CAdd(CMul(P.KK, CAdd(CMul(F.FEE1, dive), CMul(F.FEE2, xh))),
                           CMul(P.KN, CAdd(CMul(F.FEM1, divh), CMul(F.FEM2, xe)))),
                      CMul(P.NK, CAdd(CMul(F.FME1, divh), CMul(F.FME2, xe)))),
                 CMul(P.NN, CAdd(CMul(F.FMM1, dive), CMul(F.FMM2, xh))))))

\* lines 550-566: dPAbs, dF[0..2], dTau[0..2] as d[0], d[1..3], d[4..6]
EPPFT_dPFT(P, F, Sign, M) ==
  [nq \in 0..(NUMPFT - 1) |->
     IF nq = 0
     THEN RMul(Sign,
               real(CAdd(CAdd(CAdd(CMul(CMul(P.KK, F.PEE), M.be),
                                   CMul(CMul(P.KN, F.PEM), M.bh)),
                              CMul(CMul(P.NK, F.PME), M.bh)),
                         CMul(CMul(P.NN, F.PMM), M.be))))
     ELSE IF nq <= 3
     THEN EPPFT_dFT(P, F, Sign, M.divbe[nq - 1], M.bxh[nq - 1],
                    M.divbh[nq - 1], M.bxe[nq - 1])
     ELSE EPPFT_dFT(P, F, Sign, M.divbrxe[nq - 4], M.rxbxh[nq - 4],
                    M.divbrxh[nq - 4], M.rxbxe[nq - 4])]

\* lines 577-599: the interior terms taken off dF and dTau, with
\* EN = FEE3*KK + FMM3*NN and EM = FEM3*KN + FME3*NK
EPPFT_InteriorTerms(EN, EM, Ov, d) ==
  [nq \in 0..(NUMPFT - 1) |->
     IF nq = 0 THEN d[0]
     ELSE RSub(d[nq], real(CAdd(CScale(Ov[3 * nq], EN), CScale(Ov[3 * nq + 1], EM))))]
\* lines 571-601
EPPFT_Interior(Interior, P, F, S, nea, neb, d) ==
  IF Interior
  THEN EPPFT_InteriorTerms(CAdd(CMul(F.FEE3, P.KK), CMul(F.FMM3, P.NN)),
                           CAdd(CMul(F.FEM3, P.KN), CMul(F.FME3, P.NK)),
                           GetOverlaps(S, nea, neb, ZeroOverlaps), d)
  ELSE d

\* the correlation matrices a caller may pass, in the units of the products
\* of lines 535-538 (a magnetic coefficient carries the factor ZVAC), and
\* what a read through a null matrix pointer finds if it does not fault
BFScale(g, n) ==
  IF \E ns \in 0..(g.NumSurfaces - 1) :
       /\ ~g.Surfaces[ns].IsPEC
       /\ n >= g.BFIndexOffset[ns] /\ n < g.BFIndexOffset[ns] + NumBFs(g.Surfaces[ns])
       /\ (n - g.BFIndexOffset[ns]) % 2 = 1
  THEN ZVAC ELSE 1
SigmaMatrices(g) ==
  {[nr \in 0..(TotalBFs(g) - 1) |-> [nc \in 0..(TotalBFs(g) - 1) |->
      CScale(<<BFScale(g, nr) * BFScale(g, nc), 1>>,
             C(<<((nr + 2 * nc) % 3) - 1, 1>>, <<(nr * nc) % 2, 1>>))]]}
SigmaAtNull(g) ==
  [nr \in 0..(TotalBFs(g) - 1) |-> [nc \in 0..(TotalBFs(g) - 1) |->
      CScale(<<BFScale(g, nr) * BFScale(g, nc), 1>>,
             C(<<1 - (nr % 2), 1>>, <<(nc % 2) - 1, 1>>))]]
\* the edge count of the largest surface: the length of the by-edge arrays
\* of a caller whose SurfaceIndex names no surface
MaxNumEdges(g) ==
  CHOOSE n \in {g.Surfaces[ns].NumEdges : ns \in 0..(g.NumSurfaces - 1)} :
    \A ns \in 0..(g.NumSurfaces - 1) : g.Surfaces[ns].NumEdges <= n

\* the frequency of the calls, and lines 515-521 for every call the pair
\* loops make: the ten outputs of GetEPPFTMatrixElements for each pair of
\* edges of each surface that has a pair loop, at the wavenumber of either
\* medium, with SCUFF_FORCECUBATURE unset and set
EPPFT_Omegas == {CI(1)}
MatrixElements ==
  [g \in Geometries |->
    [ns \in {s \in 0..(g.NumSurfaces - 1) : ~EPPFT_NotDefined(g.Surfaces[s])} |->
      [k \in {EPPFT_Medium(Exterior, Omega, GetEpsMu(g, g.Surfaces[ns].RegionIndices[0]),
                           GetEpsMu(g, g.Surfaces[ns].RegionIndices[1])).k :
                Exterior \in BOOLEAN, Omega \in EPPFT_Omegas} |->
        [ForceCubature \in BOOLEAN |->
          [nea \in 0..(g.Surfaces[ns].NumEdges - 1) |->
            [neb \in 0..(g.Surfaces[ns].NumEdges - 1) |->
               GetEPPFTMatrixElements(g, ns, ns, nea, neb, k, 9, ForceCubature)]]]]]]

InitEPPFT ==
  /\ G \in Geometries
  /\ \E ns \in -1..G.NumSurfaces, Omega \in EPPFT_Omegas, Exterior \in BOOLEAN :
       \E KNVector \in KNVectors(G) \cup {NULL},
          SigmaMatrix \in SigmaMatrices(G) \cup {NULL},
          ForceCubature \in BOOLEAN :
         /\ call = [fn |-> "GetEPPFTTrace", SurfaceIndex |-> ns, Omega |-> Omega,
                    KNVector |-> KNVector, SigmaMatrix |-> SigmaMatrix,
                    Exterior |-> Exterior, ForceCubature |-> ForceCubature]
         /\ ByEdge \in StaleByEdge(IF ns \in 0..(G.NumSurfaces - 1)
                                   THEN G.Surfaces[ns].NumEdges ELSE MaxNumEdges(G))
  /\ PFT = StalePFT(NUMPFT)
  /\ pc = "call" /\ loc = Unused
  /\ warnings = 0 /\ reads = {}
  /\ Overlaps = Unused /\ nebOut = Unused /\ me = Unused

\* lines 418-420 with SurfaceIndex outside 0..NumSurfaces-1: the read of
\* Surfaces[SurfaceIndex] or the use of what it found faults
EPPFT_WildIndex ==
  /\ pc = "call" /\ call.fn = "GetEPPFTTrace"
  /\ call.SurfaceIndex \notin 0..(G.NumSurfaces - 1)
  /\ reads' = reads \cup {"Surfaces", "BFIndexOffset"}
  /\ pc' = "fault"
  /\ UNCHANGED <<G, call, PFT, ByEdge, loc, warnings, Overlaps, nebOut, me>>

\* lines 418-428
EPPFT_NotDefinedReturn ==
  /\ pc = "call" /\ call.fn = "GetEPPFTTrace"
  /\ \E ns \in EPPFT_SurfacesAt(G, call.SurfaceIndex) :
       EPPFT_NotDefined(G.Surfaces[ns])
  /\ reads' = reads \cup {"Surfaces", "BFIndexOffset"}
  /\ warnings' = warnings + 1
  /\ PFT' = EPPFT_NotDefinedPFT(PFT)
  /\ pc' = "done"
  /\ UNCHANGED <<G, call, ByEdge, loc, Overlaps, nebOut, me>>

\* lines 418-495
EPPFT_Enter ==
  /\ pc = "call" /\ call.fn = "GetEPPFTTrace"
  /\ \E ns \in EPPFT_SurfacesAt(G, call.SurfaceIndex) :
       /\ ~EPPFT_NotDefined(G.Surfaces[ns])
       /\ loc' = EPPFT_Locals(ns, G.Surfaces[ns], G.BFIndexOffset[ns],
                              call.Exterior, call.Omega,
                              EPPFT_Medium(call.Exterior, call.Omega,
                                GetEpsMu(G, G.Surfaces[ns].RegionIndices[0]),
                                GetEpsMu(G, G.Surfaces[ns].RegionIndices[1])))
       /\ ByEdge' = ZeroByEdge(ByEdge, G.Surfaces[ns].NumEdges)
  /\ reads' = reads \cup {"Surfaces", "BFIndexOffset", "RegionMPs"}
  /\ pc' = "neab"
  /\ UNCHANGED <<G, call, PFT, warnings, Overlaps, nebOut, me>>

\* lines 505-631: one pass of the pair loop, reading the current state from
\* KNVector or else from the matrix M
EPPFT_PairStep(KNVector, M, nea, neb) ==
  /\ \E P \in {EPPFT_CurrentProducts(loc.Offset, KNVector, M, nea, neb)},
        ME \in {MatrixElements[G][loc.ns][loc.k][call.ForceCubature][nea][neb]} :
       \E d \in {EPPFT_Interior(loc.Interior, P, loc.F, G.Surfaces[loc.ns], nea, neb,
                                EPPFT_dPFT(P, loc.F, loc.Sign, ME))} :
         /\ loc' = [loc EXCEPT
                      !.Sums = [nq \in 0..(NUMPFT - 1) |-> RAdd(loc.Sums[nq], d[nq])],
                      !.neab = loc.neab + 1]
         /\ ByEdge' = AddByEdge(ByEdge, nea, d)
         /\ me' = ME
  /\ pc' = "neab"
  /\ UNCHANGED <<G, call, PFT, warnings, Overlaps, nebOut>>

EPPFT_Pair ==
  /\ pc = "neab" /\ call.fn = "GetEPPFTTrace"
  /\ loc.neab < loc.NE * loc.NE
  /\ call.KNVector /= NULL \/ call.SigmaMatrix /= NULL
  /\ reads' = reads \cup {IF call.KNVector /= NULL THEN "KNVector" ELSE "SigmaMatrix"}
  /\ EPPFT_PairStep(call.KNVector, call.SigmaMatrix,
                    loc.neab \div loc.NE, loc.neab % loc.NE)

\* lines 540-545 with KNVector and SigmaMatrix both null: GetEntry through
\* the null pointer is undefined; it faults, or it reads what is there
EPPFT_PairNull ==
  /\ pc = "neab" /\ call.fn = "GetEPPFTTrace"
  /\ loc.neab < loc.NE * loc.NE
  /\ call.KNVector = NULL /\ call.SigmaMatrix = NULL
  /\ reads' = reads \cup {"SigmaMatrix"}
  /\ \/ /\ pc' = "fault"
        /\ UNCHANGED <<G, call, PFT, ByEdge, loc, warnings, Overlaps, nebOut, me>>
     \/ EPPFT_PairStep(NULL, SigmaAtNull(G), loc.neab \div loc.NE, loc.neab % loc.NE)

\* lines 636-642
EPPFT_Finish ==
  /\ pc = "neab" /\ call.fn = "GetEPPFTTrace"
  /\ loc.neab >= loc.NE * loc.NE
  /\ PFT' = [nq \in 0..(NUMPFT - 1) |-> loc.Sums[nq]]
  /\ pc' = "done"
  /\ UNCHANGED <<G, call, ByEdge, loc, warnings, reads, Overlaps, nebOut, me>>

NextEPPFT ==
  \/ EPPFT_WildIndex \/ EPPFT_NotDefinedReturn \/ EPPFT_Enter
  \/ EPPFT_Pair \/ EPPFT_PairNull \/ EPPFT_Finish
SpecEPPFT == InitEPPFT /\ [][NextEPPFT]_vars

\* a caller of either entry point
SpecPFT == (InitOPFT \/ InitEPPFT) /\ [][NextOPFT \/ NextEPPFT]_vars

\* a caller who, when the call has returned, notes the outputs (call.First),
\* puts other values in the PFT vector and in the by-edge arrays it supplies,
\* and makes the same call again
CallAgain ==
  /\ pc = "done" /\ "First" \notin DOMAIN call
  /\ call' = call @@ [First |-> [PFT |-> PFT, ByEdge |-> ByEdge]]
  /\ PFT' = [i \in DOMAIN PFT |-> RAdd(PFT[i], <<1, 1>>)]
  /\ ByEdge' = IF ByEdge = NULL THEN NULL
               ELSE [nq \in 0..(NUMPFT - 1) |->
                       IF ByEdge[nq] = NULL THEN NULL
                       ELSE [ne \in DOMAIN ByEdge[nq] |-> RAdd(ByEdge[nq][ne], <<1, 1>>)]]
  /\ pc' = "call" /\ loc' = Unused /\ me' = Unused
  /\ warnings' = 0 /\ reads' = {}
  /\ UNCHANGED <<G, Overlaps, nebOut>>

\* the two calls are made on the geometries without the six-edge surface
InitTwice ==
  /\ InitOPFT \/ InitEPPFT
  /\ \A ns \in 0..(G.NumSurfaces - 1) : G.Surfaces[ns].Name /= "Pillow"
SpecTwice == InitTwice /\ [][NextOPFT \/ NextEPPFT \/ CallAgain]_vars

(***************************************************************************)
(* The pair loop of GetEPPFTTrace built with USE_OPENMP (lines 498-503):   *)
(* a team of NumThreads threads takes the iterations one at a time         *)
(* (schedule(dynamic,1)); each thread has private copies of PAbs..Tauz     *)
(* (reduction(+:...)) and of everything declared in the loop body; the     *)
(* by-edge updates are in the critical region named ByEdge.  loc.neab is   *)
(* the next iteration to hand out, loc.Sums the original PAbs..Tauz, and   *)
(* me[t] the private variables of thread t:                                *)
(*   at = "for"      before taking an iteration                            *)
(*   at = "critical" at line 620, waiting to enter the region              *)
(*   at = "ByEdge"   in the region, before the statement for ByEdge[nq]    *)
(*   at = "joined"   after the loop, private sums added to the originals   *)
(* The variables declared in the loop body (nea, dPAbs, dF, dTau as d)     *)
(* exist from the start of an iteration to its end.                        *)
(***************************************************************************)
MaxThreads == 2
OMP_Thread == [at |-> "for", nea |-> 0, nq |-> 0,
               d |-> [nq \in 0..(NUMPFT - 1) |-> <<0, 1>>],
               Sums |-> [nq \in 0..(NUMPFT - 1) |-> <<0, 1>>]]

\* the second operand left out of the sum
OMP_Combine_Lost(Sums, Private) == Sums
\* PAbs += ..., Fx += ..., ... Tauz += ...: lines 607-613 on a thread's
\* private copies, and the reduction that adds them to the originals
OMP_Combine(Sums, Private) ==
  [nq \in 0..(NUMPFT - 1) |-> RAdd(Sums[nq], Private[nq])]

\* a current vector that is zero outside the first two edges of surface ns
KNVectorsOn(g, ns) ==
  {[n \in DOMAIN KN |->
      IF n - g.BFIndexOffset[ns] \in 0..3 THEN KN[n] ELSE CZero] : KN \in KNVectors(g)}

\* a caller asking for the interior PFT of the four-panel penetrable
\* surface, with GetNumThreads() = 1 or 2 and ByEdge null or complete
InitEPPFT_OMP ==
  /\ G = Geometry(<<Dihedron(TRUE, -1), Pillow(FALSE, 1)>>)
  /\ \E KNVector \in KNVectorsOn(G, 1), NumThreads \in 1..MaxThreads :
       /\ call = [fn |-> "GetEPPFTTrace", SurfaceIndex |-> 1, Omega |-> CI(1),
                  KNVector |-> KNVector, SigmaMatrix |-> NULL,
                  Exterior |-> FALSE, ForceCubature |-> FALSE,
                  NumThreads |-> NumThreads]
       /\ me = [t \in 1..NumThreads |-> OMP_Thread]
  /\ ByEdge \in {BE \in StaleByEdge(G.Surfaces[1].NumEdges) :
                   BE = NULL \/ \A nq \in 0..(NUMPFT - 1) : BE[nq] /= NULL}
  /\ PFT = StalePFT(NUMPFT)
  /\ pc = "call" /\ loc = Unused
  /\ warnings = 0 /\ reads = {}
  /\ Overlaps = Unused /\ nebOut = Unused

\* lines 515-601 for the pair (nea, neb): dPAbs, dF[0..2], dTau[0..2]
EPPFT_PairTerms(nea, neb) ==
  EPPFT_Interior(loc.Interior,
                 EPPFT_CurrentProducts(loc.Offset, call.KNVector, call.SigmaMatrix, nea, neb),
                 loc.F, G.Surfaces[loc.ns], nea, neb,
                 EPPFT_dPFT(EPPFT_CurrentProducts(loc.Offset, call.KNVector,
                                                  call.SigmaMatrix, nea, neb),
                            loc.F, loc.Sign,
                            MatrixElements[G][loc.ns][loc.k][call.ForceCubature][nea][neb]))

\* lines 505-613 in thread t: the next iteration is handed to t, which
\* works out dPAbs, dF, dTau and adds them to its private sums
OMP_Iterate(t) ==
  /\ pc = "neab" /\ me[t].at = "for"
  /\ loc.neab < loc.NE * loc.NE
  /\ \E d \in {EPPFT_PairTerms(loc.neab \div loc.NE, loc.neab % loc.NE)} :
       me' = [me EXCEPT ![t] =
                IF ByEdge = NULL
                THEN [OMP_Thread EXCEPT !.Sums = OMP_Combine(me[t].Sums, d)]
                ELSE [at |-> "critical", nea |-> loc.neab \div loc.NE, nq |-> 0,
                      d |-> d, Sums |-> OMP_Combine(me[t].Sums, d)]]
  /\ loc' = [loc EXCEPT !.neab = loc.neab + 1]
  /\ reads' = reads \cup {"KNVector"}
  /\ UNCHANGED <<G, call, pc, PFT, ByEdge, warnings, Overlaps, nebOut>>

\* line 620 left without the pragma: a thread enters whoever is inside
OMP_RegionFree_NoPragma(t) == TRUE
\* line 620, #pragma omp critical (ByEdge): no other thread is in the region
OMP_RegionFree(t) == \A u \in DOMAIN me : u /= t => me[u].at /= "ByEdge"

\* line 620: thread t enters the critical region
OMP_Critical(t) ==
  /\ pc = "neab" /\ me[t].at = "critical"
  /\ OMP_RegionFree(t)
  /\ me' = [me EXCEPT ![t].at = "ByEdge", ![t].nq = 0]
  /\ UNCHANGED <<G, call, pc, PFT, ByEdge, loc, warnings, reads, Overlaps, nebOut>>

\* lines 621-627: one statement if (ByEdge[nq]) ByEdge[nq][nea] += ... of
\* thread t; after the seventh the thread leaves the region
OMP_ByEdge(t) ==
  /\ pc = "neab" /\ me[t].at = "ByEdge"
  /\ ByEdge' = IF ByEdge[me[t].nq] = NULL THEN ByEdge
               ELSE [ByEdge EXCEPT ![me[t].nq][me[t].nea] = RAdd(@, me[t].d[me[t].nq])]
  /\ me' = [me EXCEPT ![t] =
              IF me[t].nq = NUMPFT - 1
              THEN [OMP_Thread EXCEPT !.Sums = me[t].Sums]
              ELSE [me[t] EXCEPT !.nq = me[t].nq + 1]]
  /\ UNCHANGED <<G, call, pc, PFT, loc, warnings, reads, Overlaps, nebOut>>

\* line 631 in thread t: no iteration is left; its private sums are
\* added to the original variables
OMP_Reduce(t) ==
  /\ pc = "neab" /\ me[t].at = "for"
  /\ loc.neab >= loc.NE * loc.NE
  /\ loc' = [loc EXCEPT !.Sums = OMP_Combine(loc.Sums, me[t].Sums)]
  /\ me' = [me EXCEPT ![t].at = "joined"]
  /\ UNCHANGED <<G, call, pc, PFT, ByEdge, warnings, reads, Overlaps, nebOut>>

\* lines 631-642: all threads are through the loop; PFT is written
OMP_Finish ==
  /\ pc = "neab" /\ \A t \in DOMAIN me : me[t].at = "joined"
  /\ PFT' = [nq \in 0..(NUMPFT - 1) |-> loc.Sums[nq]]
  /\ pc' = "done"
  /\ UNCHANGED <<G, call, ByEdge, loc, warnings, reads, Overlaps, nebOut, me>>

NextEPPFT_OMP ==
  \/ EPPFT_Enter
  \/ \E t \in 1..call.NumThreads : OMP_Iterate(t)
  \/ \E t \in 1..call.NumThreads : OMP_Critical(t)
  \/ \E t \in 1..call.NumThreads : OMP_ByEdge(t)
  \/ \E t \in 1..call.NumThreads : OMP_Reduce(t)
  \/ OMP_Finish
SpecEPPFT_OMP == InitEPPFT_OMP /\ [][NextEPPFT_OMP]_vars


\* the sum of the first n entries of an array of doubles
RECURSIVE SumArr(_, _)
SumArr(A, n) == IF n = 0 THEN <<0, 1>> ELSE RAdd(SumArr(A, n - 1), A[n - 1])
AllByEdgeRequested == ByEdge /= NULL /\ \A nq \in 0..(NUMPFT - 1) : ByEdge[nq] /= NULL
ByEdgeSum(nq) == SumArr(ByEdge[nq], Cardinality(DOMAIN ByEdge[nq]))
\* the by-edge arrays sum to the PFT components they break down
OPFT_Reduced ==
  /\ ByEdgeSum(0) = PFT[0]
  /\ \A i \in 1..3 : ByEdgeSum(i) = PFT[i + 1]
  /\ \A i \in 4..6 : ByEdgeSum(i) = PFT[i + 1]

C6_UnknownSurfaceRejected ==
  (call.fn = "GetOPFT" /\ OPFT_BadIndex(G, call.SurfaceIndex) /\ pc /= "call")
  => /\ pc = "done"
     /\ warnings = 1
     /\ \A i \in 0..7 : PFT[i] = RZero
     /\ reads = {}

\* C6 happens: a rejected call with index NumSurfaces and all inputs supplied
C6_Witness ==
  /\ pc = "done" /\ call.SurfaceIndex = G.NumSurfaces
  /\ call.KNVector /= NULL /\ call.RHS /= NULL /\ ByEdge /= NULL
  /\ warnings = 1

\* C8: with neither a current vector nor a correlation matrix supplied, a
\* call on a valid surface neither reads the absent current state nor
\* returns a result: it stops with a detected precondition violation.
C8_MissingCurrentStateDetected ==
  (call.KNVector = NULL /\ call.RytovMatrix = NULL
     /\ ~OPFT_BadIndex(G, call.SurfaceIndex))
  => /\ "RytovMatrix" \notin reads /\ "KNVector" \notin reads
     /\ pc \notin {"done", "fault"}

\* the normalised current and excitation coefficient of degree of freedom
\* nbf of a surface: electric k and -ZVAC*rhs, magnetic -ZVAC*n and -rhs
IsMagnetic(S, nbf) == ~S.IsPEC /\ nbf % 2 = 1
CurrentOf(S, Offset, KNVector, nbf) ==
  IF IsMagnetic(S, nbf) THEN CScale(<<-ZVAC, 1>>, KNVector[Offset + nbf])
  ELSE KNVector[Offset + nbf]
ExcitationOf(S, Offset, RHS, nbf) ==
  IF IsMagnetic(S, nbf) THEN CNeg(RHS[Offset + nbf])
  ELSE CScale(<<-ZVAC, 1>>, RHS[Offset + nbf])
RECURSIVE ExtinctionOverDOFs(_, _, _, _, _)
ExtinctionOverDOFs(S, Offset, KNVector, RHS, n) ==
  IF n = 0 THEN <<0, 1>>
  ELSE RAdd(ExtinctionOverDOFs(S, Offset, KNVector, RHS, n - 1),
            RMul(<<1, 2>>, real(CMul(conj(CurrentOf(S, Offset, KNVector, n - 1)),
                                     ExcitationOf(S, Offset, RHS, n - 1)))))

\* C9: on a valid surface GetOPFT returns PFT[1] = Extinction - PFT[0]
\* when both a current vector and an excitation vector are supplied, with
\* Extinction the sum over all degrees of freedom of the surface of
\* 0.5*Re(conj(current)*excitation), and PFT[1] = 0 in every other case.
C9_ScatteredPower ==
  (pc = "done" /\ ~OPFT_BadIndex(G, call.SurfaceIndex))
  => PFT[1] =
       IF call.KNVector /= NULL /\ call.RHS /= NULL
       THEN RSub(ExtinctionOverDOFs(G.Surfaces[call.SurfaceIndex],
                                    G.BFIndexOffset[call.SurfaceIndex],
                                    call.KNVector, call.RHS,
                                    NumBFs(G.Surfaces[call.SurfaceIndex])),
                 PFT[0])
       ELSE RZero

\* C9 happens: both vectors supplied on a non-PEC surface that is not the
\* first of its geometry, with nonzero scattered and absorbed power
C9_Witness ==
  /\ pc = "done" /\ ~OPFT_BadIndex(G, call.SurfaceIndex)
  /\ call.KNVector /= NULL /\ call.RHS /= NULL
  /\ ~G.Surfaces[call.SurfaceIndex].IsPEC
  /\ G.BFIndexOffset[call.SurfaceIndex] > 0
  /\ PFT[1] /= RZero /\ PFT[0] /= RZero /\ PFT[1] /= RNeg(PFT[0])


\* the near fields of the omitted panel pairs replaced by zero
ZeroFields == [e |-> Tab3([Mu \in 0..2 |-> CZero]), h |-> Tab3([Mu \in 0..2 |-> CZero])]
ZeroOmitted(D, OmitPanelPair) ==
  [D EXCEPT !.PP = IF OmitPanelPair[0][0] THEN ZeroFields ELSE @,
            !.PM = IF OmitPanelPair[0][1] THEN ZeroFields ELSE @,
            !.MP = IF OmitPanelPair[1][0] THEN ZeroFields ELSE @,
            !.MM = IF OmitPanelPair[1][1] THEN ZeroFields ELSE @]
NoOmit == [A \in 0..1 |-> [B \in 0..1 |-> FALSE]]
\* the cubature sums with no mask over the fields with the omitted pairs zeroed
RECURSIVE ZeroedFieldsLoop(_, _, _, _, _, _, _, _, _, _)
ZeroedFieldsLoop(g, ns, S, Ea, Eb, k, OmitPanelPair, R, np, acc) ==
  IF np >= R.NumPts THEN acc
  ELSE ZeroedFieldsLoop(g, ns, S, Ea, Eb, k, OmitPanelPair, R, np + 1,
         Cub_Combine([PP |-> <<1, 1>>, PM |-> <<-1, 1>>, MP |-> <<-1, 1>>, MM |-> <<1, 1>>],
                     ZeroOmitted(Cub_PointOf(g, ns, S, Ea, Eb, k, R, np), OmitPanelPair),
                     acc))
WithZeroedFields ==
  ZeroedFieldsLoop(G, call.nsb, G.Surfaces[call.nsa], G.Surfaces[call.nsa].Edges[call.nea],
                   G.Surfaces[call.nsa].Edges[call.neb], call.k, call.OmitPanelPair,
                   GetTCR(call.Order), 0, ZeroME)
WithoutMask ==
  GetEPPFTMatrixElements_Cubature(G, call.nsa, call.nsb, call.nea, call.neb,
                                  call.k, NoOmit, call.Order)
CubatureReturned == pc = "done" /\ call.fn = "GetEPPFTMatrixElements_Cubature"

\* C10 (amended): an omitted panel pair contributes exactly zero to divbe,
\* divbh and bxe, each of which equals the value obtained by replacing the
\* near fields of that pair by zero; be, bh, bxh, divbrxe, divbrxh, rxbxe
\* and rxbxh do not depend on the mask.
C10_OmittedPairMaskedOutputs ==
  CubatureReturned
  => \A Z \in {WithZeroedFields}, W \in {WithoutMask} :
       /\ me.divbe = Z.divbe /\ me.divbh = Z.divbh /\ me.bxe = Z.bxe
       /\ me.be = W.be /\ me.bh = W.bh /\ me.bxh = W.bxh
       /\ me.divbrxe = W.divbrxe /\ me.divbrxh = W.divbrxh
       /\ me.rxbxe = W.rxbxe /\ me.rxbxh = W.rxbxh

\* C10 happens: exactly the pair (plus, minus) omitted, and the omission
\* changes divbe, divbh and bxe
C10_Witness ==
  /\ CubatureReturned
  /\ call.OmitPanelPair[0][1] /\ ~call.OmitPanelPair[1][0]
  /\ ~call.OmitPanelPair[0][0] /\ ~call.OmitPanelPair[1][1]
  /\ \E W \in {WithoutMask} :
       me.divbe /= W.divbe /\ me.divbh /= W.divbh /\ me.bxe /= W.bxe

\* C10 as stated: every one of the ten outputs equals the value obtained by
\* replacing the near fields of the omitted panel pairs by zero.
C10_OmittedPairEveryOutput ==
  CubatureReturned => me = WithZeroedFields

\* the call is one of GetEPPFTTrace, and its surface index names a surface
EPPFTCall == call.fn = "GetEPPFTTrace"
IndexInRange == call.SurfaceIndex \in 0..(G.NumSurfaces - 1)
EPPFT_Reduced == \A nq \in 0..(NUMPFT - 1) : ByEdgeSum(nq) = PFT[nq]

\* C1: every call of GetEPPFTTrace that returns with seven non-null by-edge
\* arrays has, for each quantity q in 0..6, the entries of ByEdge[q] summing
\* to PFT[q], in exact arithmetic.
C1_EPPFTReductionEveryCall ==
  (EPPFTCall /\ pc = "done" /\ AllByEdgeRequested) => EPPFT_Reduced

\* C5: GetEPPFTTrace on a surface that is perfectly conducting or has no
\* interior region returns with the 7 PFT components zero and exactly one
\* warning, having looked up no material, read no current state and computed
\* no pair.
C5_NotDefinedForPEC ==
  (EPPFTCall /\ IndexInRange /\ pc /= "call"
     /\ (G.Surfaces[call.SurfaceIndex].IsPEC
           \/ G.Surfaces[call.SurfaceIndex].RegionIndices[1] = -1))
  => /\ pc = "done"
     /\ warnings = 1
     /\ \A i \in 0..6 : PFT[i] = RZero
     /\ reads \cap {"RegionMPs", "KNVector", "SigmaMatrix"} = {}
     /\ loc = Unused /\ me = Unused

\* C5 happens: a returned call on a surface that is not perfectly conducting
\* and has no interior region, with a current vector and by-edge arrays
C5_Witness ==
  /\ EPPFTCall /\ IndexInRange /\ pc = "done"
  /\ ~G.Surfaces[call.SurfaceIndex].IsPEC
  /\ G.Surfaces[call.SurfaceIndex].RegionIndices[1] = -1
  /\ call.KNVector /= NULL /\ ByEdge /= NULL
  /\ warnings = 1

\* C7: GetEPPFTTrace with a surface index that is negative or >= NumSurfaces
\* warns, sets all 7 PFT components to zero and returns without reading
\* Surfaces[SurfaceIndex] or BFIndexOffset[SurfaceIndex].
C7_InvalidIndexRejected ==
  (EPPFTCall /\ ~IndexInRange /\ pc /= "call")
  => /\ pc = "done"
     /\ warnings >= 1
     /\ \A i \in 0..6 : PFT[i] = RZero
     /\ reads \cap {"Surfaces", "BFIndexOffset"} = {}

\* the panel pair (A, B) of a call of GetEPPFTMatrixElements is singular:
\* same surface, no override, and at least one common vertex
MECall == call.fn = "GetEPPFTMatrixElements"
PanelOf(E, A) == IF A = 0 THEN E.iPPanel ELSE E.iMPanel
SourceOf(E, A) == IF A = 0 THEN E.iQP ELSE E.iQM
SingularPair(A, B) ==
  /\ call.nsa = call.nsb /\ ~call.ForceCubature
  /\ AssessPanelPair(G.Surfaces[call.nsa],
                     PanelOf(G.Surfaces[call.nsa].Edges[call.nea], A),
                     PanelOf(G.Surfaces[call.nsb].Edges[call.neb], B)).ncv > 0
\* the Taylor-Duffy value of the pair (A, B) with its sign and edge lengths
TDOfPair(A, B) ==
  LET S  == G.Surfaces[call.nsa]
      Ea == S.Edges[call.nea]
      Eb == S.Edges[call.neb]
      ap == AssessPanelPair(S, PanelOf(Ea, A), PanelOf(Eb, B))
      D  == GetEPPFTMatrixElements_TD(ap.Va, S.Vertices[SourceOf(Ea, A)], ap.Vb,
                                      S.Vertices[SourceOf(Eb, B)], ap.ncv, call.k)
      f  == RMul(IF A = B THEN <<1, 1>> ELSE <<-1, 1>>, RMul(Ea.Length, Eb.Length))
  IN  [divbe |-> Tab3([Mu \in 0..2 |-> CScale(f, D.divbe[Mu])]),
       divbh |-> Tab3([Mu \in 0..2 |-> CScale(f, D.divbh[Mu])]),
       bxe   |-> Tab3([Mu \in 0..2 |-> CScale(f, D.bxe[Mu])])]
ZeroTD == [divbe |-> ZeroFields.e, divbh |-> ZeroFields.e, bxe |-> ZeroFields.e]
TDOrZero(A, B) == IF SingularPair(A, B) THEN TDOfPair(A, B) ELSE ZeroTD
Add4(a, b, c, d) == Tab3([Mu \in 0..2 |-> CAdd(CAdd(CAdd(a[Mu], b[Mu]), c[Mu]), d[Mu])])
Add3V(a, b) == Tab3([Mu \in 0..2 |-> CAdd(a[Mu], b[Mu])])

\* C11: on return from GetEPPFTMatrixElements a panel pair (A, B) is omitted
\* from the cubature exactly when it is singular (same surface, override
\* off, common-vertex count > 0), the Taylor-Duffy sums hold exactly the
\* values of the singular pairs, and the outputs are the cubature over the
\* pairs that are not singular plus those sums; with the override on, or on
\* two surfaces, nothing is omitted and no Taylor-Duffy value is added.
C11_OmittedIffTaylorDuffy ==
  (MECall /\ pc = "done")
  => /\ \A A \in 0..1, B \in 0..1 : loc.OmitPanelPair[A][B] = SingularPair(A, B)
     /\ loc.HaveTDContributions = (\E A \in 0..1, B \in 0..1 : SingularPair(A, B))
     /\ \A T \in {[PP |-> TDOrZero(0, 0), PM |-> TDOrZero(0, 1),
                   MP |-> TDOrZero(1, 0), MM |-> TDOrZero(1, 1)]} :
          /\ loc.divbeTD = Add4(T.PP.divbe, T.PM.divbe, T.MP.divbe, T.MM.divbe)
          /\ loc.divbhTD = Add4(T.PP.divbh, T.PM.divbh, T.MP.divbh, T.MM.divbh)
          /\ loc.bxeTD = Add4(T.PP.bxe, T.PM.bxe, T.MP.bxe, T.MM.bxe)
     /\ \A W \in {GetEPPFTMatrixElements_Cubature(G, call.nsa, call.nsb, call.nea,
                    call.neb, call.k, loc.OmitPanelPair, call.Order)} :
          me = [W EXCEPT !.divbe = Add3V(@, loc.divbeTD),
                         !.divbh = Add3V(@, loc.divbhTD),
                         !.bxe = Add3V(@, loc.bxeTD)]
     /\ (call.ForceCubature \/ call.nsa /= call.nsb) => loc = NoTD

\* C11 happens: a call on one surface without the override in which some
\* panel pairs are singular and others are not, and the Taylor-Duffy sums
\* are not zero
C11_Witness ==
  /\ MECall /\ pc = "done"
  /\ call.nsa = call.nsb /\ ~call.ForceCubature
  /\ \E A \in 0..1, B \in 0..1 : loc.OmitPanelPair[A][B]
  /\ \E A \in 0..1, B \in 0..1 : ~loc.OmitPanelPair[A][B]
  /\ loc.divbeTD /= ZeroFields.e /\ loc.bxeTD /= ZeroFields.e


(***************************************************************************)
(* The pair loop with worker threads                                       *)
(***************************************************************************)
\* the threads inside the critical region ByEdge after the step
InRegion(team) == {t \in DOMAIN team : team[t].at = "ByEdge"}

\* C12: with the pair iterations interleaved in any way, at most one thread
\* is inside the critical region that updates the by-edge arrays, and from
\* the first to the seventh statement of one pair's update nobody but the
\* thread in the region changes a by-edge array: every change of ByEdge
\* during the loop is a step of the one thread inside, while every other
\* thread stands still.
C12_CriticalRegion ==
  [][ /\ Cardinality(InRegion(me')) <= 1
      /\ (pc = "neab" /\ ByEdge' /= ByEdge) =>
            \E t \in InRegion(me) :
               /\ InRegion(me) = {t}
               /\ me'[t] /= me[t]
               /\ \A u \in DOMAIN me \ {t} : me'[u] = me[u] ]_vars

\* C12 happens: a thread has done four of its seven statements while the
\* other thread waits at the region with a pair of the same edge nea, both
\* with a nonzero power term
C12_Witness ==
  /\ pc = "neab"
  /\ \E t \in DOMAIN me, u \in DOMAIN me :
       /\ t /= u
       /\ me[t].at = "ByEdge" /\ me[t].nq = 4
       /\ me[u].at = "critical" /\ me[u].nea = me[t].nea
       /\ me[t].d[0] /= RZero /\ me[u].d[0] /= RZero

\* the pair loop run by one thread in index order: what the pairs (nea, neb),
\* (nea, neb+1), ... of edge nea add to acc in component nq, and what the
\* pairs of the edges nea, nea+1, ... add, edge by edge
RECURSIVE EPPFT_SequentialByEdge(_, _, _, _)
EPPFT_SequentialByEdge(nq, nea, neb, acc) ==
  IF neb >= loc.NE THEN acc
  ELSE EPPFT_SequentialByEdge(nq, nea, neb + 1, RAdd(acc, EPPFT_PairTerms(nea, neb)[nq]))
RECURSIVE EPPFT_SequentialSum(_, _, _)
EPPFT_SequentialSum(nq, nea, acc) ==
  IF nea >= loc.NE THEN acc
  ELSE EPPFT_SequentialSum(nq, nea + 1,
                           RAdd(acc, EPPFT_SequentialByEdge(nq, nea, 0, RZero)))

\* C13: whatever the number of threads and the interleaving, when
\* GetEPPFTTrace returns, the PFT vector and every by-edge array hold
\* exactly what the loop run by one thread in index order produces.
C13_NoLostUpdate ==
  (pc = "done" /\ call.fn = "GetEPPFTTrace") =>
     /\ \A nq \in 0..(NUMPFT - 1) : PFT[nq] = EPPFT_SequentialSum(nq, 0, RZero)
     /\ ByEdge /= NULL =>
          \A nq \in 0..(NUMPFT - 1) : \A nea \in 0..(loc.NE - 1) :
             ByEdge[nq][nea] = EPPFT_SequentialByEdge(nq, nea, 0, RZero)

\* C13 happens: a returned call with two threads that both took pairs with
\* a nonzero power term, nonzero by-edge entries and a nonzero PFT
C13_Witness ==
  /\ pc = "done" /\ call.fn = "GetEPPFTTrace"
  /\ DOMAIN me = 1..2
  /\ me[1].Sums[0] /= RZero /\ me[2].Sums[0] /= RZero
  /\ me[1].Sums[0] /= PFT[0] /\ me[2].Sums[0] /= PFT[0]
  /\ ByEdge /= NULL /\ ByEdge[0][0] /= RZero /\ ByEdge[4][1] /= RZero
  /\ \A nq \in 0..(NUMPFT - 1) : PFT[nq] /= RZero


(***************************************************************************)
(* Termination of GetEPPFTTrace                                            *)
(***************************************************************************)
\* the call is on a surface of the geometry that is not perfectly
\* conducting and has an interior region
EPPFT_Defined ==
  /\ EPPFTCall /\ IndexInRange
  /\ ~EPPFT_NotDefined(G.Surfaces[call.SurfaceIndex])

\* C14: a call of GetEPPFTTrace on a valid surface that is not perfectly
\* conducting runs to completion: no step of it ends the call short of its
\* return, each pass of the pair loop takes the next neab (from 0, one at a
\* time, so the NE*NE - neab passes still to make go down to zero), and the
\* call returns exactly when all NE*NE pairs (neab / NE, neab % NE) have had
\* their pass.
C14_RunsToCompletion ==
  [][ EPPFT_Defined =>
        /\ pc' \in {"neab", "done"}
        /\ pc' = "neab" =>
              /\ loc'.neab = (IF pc = "call" THEN 0 ELSE loc.neab + 1)
              /\ loc'.neab <= loc'.NE * loc'.NE
        /\ pc' = "done" => loc.neab = loc.NE * loc.NE ]_vars


\* the caller passed a current vector or a correlation matrix
EPPFT_Supplied == call.KNVector /= NULL \/ call.SigmaMatrix /= NULL

\* C14 restricted to calls with the current state supplied: a call of GetEPPFTTrace on a valid
\* surface that is not perfectly conducting, with KNVector or SigmaMatrix
\* non-null, runs to completion: every step of it is the entry, a pass of the
\* pair loop or the return; each pass takes the next neab (from 0, one at a
\* time) and calls GetEPPFTMatrixElements for the pair (neab / NE,
\* neab % NE); the call returns exactly when neab has reached NE*NE.
C14_RunsToCompletionSupplied ==
  [][ (EPPFT_Defined /\ EPPFT_Supplied) =>
        /\ pc' \in {"neab", "done"}
        /\ pc' = "neab" =>
              /\ loc'.neab = (IF pc = "call" THEN 0 ELSE loc.neab + 1)
              /\ loc'.neab <= loc'.NE * loc'.NE
              /\ pc = "neab" =>
                    me' = MatrixElements[G][loc.ns][loc.k][call.ForceCubature]
                                        [loc.neab \div loc.NE][loc.neab % loc.NE]
        /\ pc' = "done" => loc.neab = loc.NE * loc.NE ]_vars

\* the restricted C14 happens: a call on the six-edge surface has returned
\* after 36 passes with a nonzero power
C14_Witness ==
  /\ EPPFT_Defined /\ EPPFT_Supplied /\ pc = "done"
  /\ loc.NE = 6 /\ loc.neab = 36
  /\ PFT[0] /= RZero


(***************************************************************************)
(* What a call writes                                                      *)
(***************************************************************************)
\* C15: no step of a call of GetOPFT or GetEPPFTTrace changes the geometry
\* (vertices, panels, edges), the materials or the caller's current state
\* (KNVector, RHS, Sigma or Rytov matrix); of the caller's data only the PFT
\* vector and the by-edge arrays that are not null are written: a null
\* ByEdge, and a null ByEdge[nq], stay null, and the arrays keep their
\* lengths.
C15_InputsReadOnly ==
  [][ /\ G' = G
      /\ call' = call
      /\ DOMAIN PFT' = DOMAIN PFT
      /\ ByEdge = NULL => ByEdge' = NULL
      /\ ByEdge /= NULL =>
            /\ ByEdge' /= NULL
            /\ \A nq \in 0..(NUMPFT - 1) :
                  IF ByEdge[nq] = NULL THEN ByEdge'[nq] = NULL
                  ELSE ByEdge'[nq] /= NULL /\ DOMAIN ByEdge'[nq] = DOMAIN ByEdge[nq] ]_vars

\* C15 happens: a call of GetEPPFTTrace with a current vector has returned,
\* having written PFT and the two by-edge arrays that are not null
C15_Witness ==
  /\ EPPFTCall /\ pc = "done" /\ call.KNVector /= NULL
  /\ ByEdge /= NULL /\ ByEdge[1] = NULL
  /\ ByEdge[0] /= NULL /\ ByEdge[0][0] \notin {RZero, <<5, 1>>}
  /\ ByEdge[3] /= NULL /\ ByEdge[3][0] \notin {RZero, <<5, 1>>}
  /\ \A nq \in 0..(NUMPFT - 1) : PFT[nq] \notin {RZero, <<9, 1>>}


(***************************************************************************)
(* The list of GetOverlappingEdgeIndices                                   *)
(***************************************************************************)
\* the edges of panel np other than ne, as the panel's EI names them
OtherEdges(S, np, ne) == {S.Panels[np].EI[i] : i \in 0..2} \ {ne}

\* C17: GetOverlappingEdgeIndices(S, nea, nebArray) writes at most 5
\* entries: nebArray[0] is nea, nebArray[1..2] are the two other edges of the
\* positive panel and, only when the edge has a negative panel, nebArray[3..4]
\* are the two other edges of the negative panel; the count returned is 3
\* without a negative panel and 5 with one, and the entries at positions >=
\* count hold what they held before the call.
C17_ItselfPlusTwoPerPanel ==
  pc = "indices" =>
    LET S == Surf(G, call.ns)
        E == S.Edges[call.neAlpha]
        a == nebOut.nebArray
    IN  /\ DOMAIN a = 0..4
        /\ a[0] = call.neAlpha
        /\ a[1] /= a[2]
        /\ {a[1], a[2]} = OtherEdges(S, E.iPPanel, call.neAlpha)
        /\ IF E.iMPanel = -1
           THEN /\ nebOut.count = 3
                /\ a[3] = Unwritten /\ a[4] = Unwritten
           ELSE /\ nebOut.count = 5
                /\ a[3] /= a[4]
                /\ {a[3], a[4]} = OtherEdges(S, E.iMPanel, call.neAlpha)

\* C17 happens: the list of a boundary edge has been returned, 3 entries
\* naming the three edges of its panel, the last two left alone
C17_Witness ==
  /\ pc = "indices"
  /\ Surf(G, call.ns).Edges[call.neAlpha].iMPanel = -1
  /\ nebOut.count = 3
  /\ Cardinality({nebOut.nebArray[i] : i \in 0..2}) = 3
  /\ \A i \in 0..2 : nebOut.nebArray[i] \in EdgesOf(Surf(G, call.ns))

\* C20: every entry GetOverlappingEdgeIndices writes in positions
\* 0..count-1 is an edge index of the surface, 0 <= neb < NumEdges, also on
\* an open surface whose panels have exterior edges, so that GetOPFT reads
\* Edges[neb] and the current coefficients of neb within their arrays.
C20_EnumeratedIndicesValid ==
  pc = "indices" =>
    \A i \in 0..(nebOut.count - 1) :
      nebOut.nebArray[i] \in EdgesOf(Surf(G, call.ns))


(***************************************************************************)
(* The adjacency shortcut of GetOPFT against the full double loop          *)
(***************************************************************************)
\* the contribution of the pair (nea, neb) to quantity nq by the formula of
\* the loop body of GetOPFT, the current state read as the call reads it
OPFT_PairTerm(nq, nea, neb) ==
  OPFT_dPFT(OPFT_CurrentProducts(G.Surfaces[call.SurfaceIndex], loc.Offset,
                                 call.KNVector,
                                 IF call.RytovMatrix = NULL THEN AtNull(G) ELSE call.RytovMatrix,
                                 nea, neb),
            loc.ZZ, loc.k2, call.Omega,
            GetOverlaps(G.Surfaces[call.SurfaceIndex], nea, neb, ZeroOverlaps))[nq]

\* the sum over neb = neb..NE-1 for one nea, and over nea = nea..NE-1
RECURSIVE OPFT_FullLoopRow(_, _, _, _)
OPFT_FullLoopRow(nq, nea, neb, acc) ==
  IF neb >= loc.NE THEN acc
  ELSE OPFT_FullLoopRow(nq, nea, neb + 1, RAdd(acc, OPFT_PairTerm(nq, nea, neb)))
RECURSIVE OPFT_FullLoop(_, _, _)
OPFT_FullLoop(nq, nea, acc) ==
  IF nea >= loc.NE THEN acc
  ELSE OPFT_FullLoop(nq, nea + 1, RAdd(acc, OPFT_FullLoopRow(nq, nea, 0, RZero)))

\* C16: the totals PAbs, Fx..Tauz that GetOPFT accumulates over the lists of
\* GetOverlappingEdgeIndices equal the totals of the double loop over all
\* NE x NE ordered pairs (nea, neb) with the same formula for a pair, and
\* the sum of one edge's list equals the sum of that edge's row.
C16_ShortcutEqualsFullLoop ==
  (pc = "done" /\ call.fn = "GetOPFT" /\ ~OPFT_BadIndex(G, call.SurfaceIndex))
  => \A nq \in 0..(NUMPFT - 1) : loc.Sums[nq] = OPFT_FullLoop(nq, 0, RZero)

\* a call on the six-edge surface has returned with a nonzero power and a
\* nonzero force
C16_Witness ==
  /\ pc = "done" /\ call.fn = "GetOPFT" /\ ~OPFT_BadIndex(G, call.SurfaceIndex)
  /\ G.Surfaces[call.SurfaceIndex].NumEdges = 6
  /\ call.KNVector /= NULL
  /\ loc.Sums[0] /= RZero /\ loc.Sums[1] /= RZero


(***************************************************************************)
(* The by-edge arrays are indexed by the first edge of the pair            *)
(***************************************************************************)
\* a pass of the pair loop of either entry point has been made
PairPass ==
  /\ pc \in {"neb", "neab"}
  /\ pc' \in {"neb", "nea", "neab"}
\* the edge nea of the pass
PassEdge == IF call.fn = "GetOPFT" THEN loc.nea ELSE loc.neab \div loc.NE

\* the contribution of the pair (nea, neb) to quantity nq in GetEPPFTTrace,
\* the current state read as the call reads it
EPPFT_PairTerm(nq, nea, neb) ==
  EPPFT_Interior(loc.Interior,
                 EPPFT_CurrentProducts(loc.Offset, call.KNVector,
                    IF call.SigmaMatrix = NULL THEN SigmaAtNull(G) ELSE call.SigmaMatrix,
                    nea, neb),
                 loc.F, G.Surfaces[loc.ns], nea, neb,
                 EPPFT_dPFT(EPPFT_CurrentProducts(loc.Offset, call.KNVector,
                               IF call.SigmaMatrix = NULL THEN SigmaAtNull(G) ELSE call.SigmaMatrix,
                               nea, neb),
                            loc.F, loc.Sign,
                            MatrixElements[G][loc.ns][loc.k][call.ForceCubature][nea][neb]))[nq]

\* the sum over the partners visited for edge e: all edges neb..NE-1 in
\* GetEPPFTTrace, the entries i..count-1 of the list r in GetOPFT
RECURSIVE EPPFT_EdgeSum(_, _, _, _)
EPPFT_EdgeSum(nq, e, neb, acc) ==
  IF neb >= loc.NE THEN acc
  ELSE EPPFT_EdgeSum(nq, e, neb + 1, RAdd(acc, EPPFT_PairTerm(nq, e, neb)))
RECURSIVE OPFT_EdgeSum(_, _, _, _, _)
OPFT_EdgeSum(nq, e, r, i, acc) ==
  IF i >= r.count THEN acc
  ELSE OPFT_EdgeSum(nq, e, r, i + 1, RAdd(acc, OPFT_PairTerm(nq, e, r.nebArray[i])))
EdgeSum(nq, e) ==
  IF call.fn = "GetOPFT"
  THEN OPFT_EdgeSum(nq, e,
         GetOverlappingEdgeIndices(G.Surfaces[call.SurfaceIndex], e, [i \in 0..4 |-> Unwritten]),
         0, RZero)
  ELSE EPPFT_EdgeSum(nq, e, 0, RZero)

\* C18: in GetOPFT and in GetEPPFTTrace a pass for the pair (nea, neb) adds
\* the pair's contribution to quantity q (what it adds to the total of q) to
\* ByEdge[q][nea] and changes no other entry; a null ByEdge[q] stays null
\* and the other arrays are updated all the same; and when the call returns
\* from the loop, ByEdge[q][e] is the sum of the contributions of the pairs
\* (e, neb) over the partners neb visited for e.
C18_AddedAtSourceIndex ==
  [][ /\ (PairPass /\ ByEdge /= NULL) =>
            \A nq \in 0..(NUMPFT - 1) :
              IF ByEdge[nq] = NULL THEN ByEdge'[nq] = NULL
              ELSE \A e \in DOMAIN ByEdge[nq] :
                     ByEdge'[nq][e] =
                       IF e = PassEdge
                       THEN RAdd(ByEdge[nq][e], RSub(loc'.Sums[nq], loc.Sums[nq]))
                       ELSE ByEdge[nq][e]
      /\ (pc \in {"nea", "neab"} /\ pc' = "done" /\ ByEdge' /= NULL) =>
            \A nq \in 0..(NUMPFT - 1) :
              ByEdge'[nq] /= NULL =>
                \A e \in 0..(loc.NE - 1) : ByEdge'[nq][e] = EdgeSum(nq, e) ]_vars

\* C18 happens: in the middle of the loop of GetEPPFTTrace, with ByEdge[1]
\* null, the power array holds the nonzero sums of edges 0 and 1 and nothing
\* yet for edge 2
C18_Witness ==
  /\ EPPFTCall /\ pc = "neab" /\ call.KNVector /= NULL
  /\ loc.neab = 2 * loc.NE
  /\ ByEdge /= NULL /\ ByEdge[1] = NULL /\ ByEdge[0] /= NULL
  /\ ByEdge[0][0] /= RZero /\ ByEdge[0][1] /= RZero
  /\ ByEdge[0][0] /= ByEdge[0][1]
  /\ ByEdge[0][2] = RZero


(***************************************************************************)
(* Two calls in a row                                                      *)
(***************************************************************************)
\* C19: a second call of GetOPFT or GetEPPFTTrace with the same geometry,
\* frequency, current state and flags returns with the same values in PFT
\* and in every by-edge array supplied as the first call did, whatever the
\* caller put in those locations between the calls.
C19_SecondCallSameOutputs ==
  (pc = "done" /\ "First" \in DOMAIN call)
  => /\ PFT = call.First.PFT
     /\ ByEdge = call.First.ByEdge

\* the calls that go through the loop: the surface index names a surface
\* and, for GetEPPFTTrace, the surface is not PEC and has an interior
ThroughLoop ==
  /\ call.SurfaceIndex \in 0..(G.NumSurfaces - 1)
  /\ EPPFTCall => ~EPPFT_NotDefined(G.Surfaces[call.SurfaceIndex])

\* the second call of those returns with the outputs of the first
C19_SecondCallSameOutputsThroughLoop ==
  (pc = "done" /\ "First" \in DOMAIN call /\ ThroughLoop)
  => /\ PFT = call.First.PFT
     /\ ByEdge = call.First.ByEdge

\* a second call has returned with nonzero outputs
C19_Witness ==
  /\ pc = "done" /\ "First" \in DOMAIN call /\ ThroughLoop
  /\ ByEdge /= NULL /\ ByEdge[0] /= NULL
  /\ ByEdge[0][0] /= RZero /\ PFT[0] /= RZero


(***************************************************************************)
(* The current-state indices GetOPFT reads                                 *)
(***************************************************************************)
\* lines 322-347: the indices at which the pass for (nea, neb) reads the
\* current vector, or else the rows and columns at which it reads the matrix
OPFT_PairReads(S, Offset, KNVector, nea, neb) ==
  IF KNVector /= NULL /\ S.IsPEC
  THEN {Offset + nea, Offset + neb}
  ELSE {Offset + 2 * nea + 0, Offset + 2 * nea + 1,
        Offset + 2 * neb + 0, Offset + 2 * neb + 1}

\* lines 434-446: the indices the extinction loop reads from edge ne on, in
\* order, appended to seq
RECURSIVE OPFT_ExtinctionReads(_, _, _, _, _)
OPFT_ExtinctionReads(S, Offset, ne, nbf, seq) ==
  IF ne >= S.NumEdges THEN seq
  ELSE IF S.IsPEC
  THEN OPFT_ExtinctionReads(S, Offset, ne + 1, nbf + 1, Append(seq, Offset + nbf))
  ELSE OPFT_ExtinctionReads(S, Offset, ne + 1, nbf + 2,
                            Append(Append(seq, Offset + nbf), Offset + nbf + 1))

\* the degrees of freedom of the surface of the call
OwnBlock ==
  loc.Offset..(loc.Offset + NumBFs(G.Surfaces[call.SurfaceIndex]) - 1)

\* a pass of the pair loop of GetOPFT reads inside the block
OPFT_PassInBlock ==
  (call.fn = "GetOPFT" /\ pc = "neb" /\ pc' \in {"neb", "nea"})
  => OPFT_PairReads(G.Surfaces[call.SurfaceIndex], loc.Offset, call.KNVector,
                    loc.nea, loc.nebArray[loc.nneb]) \subseteq OwnBlock
\* the extinction loop reads each degree of freedom of the block once
OPFT_ExtinctionInBlock ==
  (call.fn = "GetOPFT" /\ pc = "nea" /\ pc' = "done"
     /\ call.KNVector /= NULL /\ call.RHS /= NULL)
  => \E r \in {OPFT_ExtinctionReads(G.Surfaces[call.SurfaceIndex], loc.Offset, 0, 0, << >>)} :
       /\ Len(r) = Cardinality(OwnBlock)
       /\ {r[i] : i \in 1..Len(r)} = OwnBlock

\* C21: every index at which GetOPFT reads the current vector or the
\* correlation matrix is a degree of freedom of the surface of the call,
\* Offset <= n < Offset + NBF with NBF = NE on a PEC surface and 2*NE
\* otherwise, in every pass of the pair loop with either input, and the
\* extinction loop reads each of these degrees of freedom exactly once.
C21_ReadsInOwnBlock == [][OPFT_PassInBlock /\ OPFT_ExtinctionInBlock]_vars

\* the same for the calls that read the current vector or are made on a
\* surface that is not PEC
C21_ReadsInOwnBlockVectorOrPenetrable ==
  [][ (/\ call.fn = "GetOPFT" /\ ~OPFT_BadIndex(G, call.SurfaceIndex)
       /\ call.KNVector /= NULL \/ ~G.Surfaces[call.SurfaceIndex].IsPEC)
        => (OPFT_PassInBlock /\ OPFT_ExtinctionInBlock) ]_vars

\* a call with the current vector and RHS on the PEC surface of five edges
\* has returned, and one on a surface that is not PEC
C21_Witness ==
  /\ call.fn = "GetOPFT" /\ pc = "done" /\ ~OPFT_BadIndex(G, call.SurfaceIndex)
  /\ call.KNVector /= NULL /\ call.RHS /= NULL
  /\ G.Surfaces[call.SurfaceIndex].IsPEC
  /\ G.Surfaces[call.SurfaceIndex].NumEdges = 5
  /\ PFT[1] /= RZero


(***************************************************************************)
(* A current vector and a correlation matrix both supplied                 *)
(***************************************************************************)
BothSupplied ==
  /\ call.KNVector /= NULL
  /\ IF call.fn = "GetOPFT" THEN call.RytovMatrix /= NULL ELSE call.SigmaMatrix /= NULL

\* the contribution of the pair (nea, neb) to quantity nq when no matrix is
\* passed
OPFT_VectorTerm(nq, nea, neb) ==
  OPFT_dPFT(OPFT_CurrentProducts(G.Surfaces[call.SurfaceIndex], loc.Offset,
                                 call.KNVector, NULL, nea, neb),
            loc.ZZ, loc.k2, call.Omega,
            GetOverlaps(G.Surfaces[call.SurfaceIndex], nea, neb, ZeroOverlaps))[nq]
EPPFT_VectorTerm(nq, nea, neb) ==
  EPPFT_Interior(loc.Interior,
                 EPPFT_CurrentProducts(loc.Offset, call.KNVector, NULL, nea, neb),
                 loc.F, G.Surfaces[loc.ns], nea, neb,
                 EPPFT_dPFT(EPPFT_CurrentProducts(loc.Offset, call.KNVector, NULL, nea, neb),
                            loc.F, loc.Sign,
                            MatrixElements[G][loc.ns][loc.k][call.ForceCubature][nea][neb]))[nq]

\* what the call without the matrix leaves in ByEdge[nq][e], when that array
\* is supplied, and in the totals PAbs, Fx..Tauz
RECURSIVE EPPFT_VectorEdgeSum(_, _, _, _)
EPPFT_VectorEdgeSum(nq, e, neb, acc) ==
  IF neb >= loc.NE THEN acc
  ELSE EPPFT_VectorEdgeSum(nq, e, neb + 1, RAdd(acc, EPPFT_VectorTerm(nq, e, neb)))
RECURSIVE OPFT_VectorEdgeSum(_, _, _, _, _)
OPFT_VectorEdgeSum(nq, e, r, i, acc) ==
  IF i >= r.count THEN acc
  ELSE OPFT_VectorEdgeSum(nq, e, r, i + 1, RAdd(acc, OPFT_VectorTerm(nq, e, r.nebArray[i])))
VectorEdgeSum(nq, e) ==
  IF call.fn = "GetOPFT"
  THEN OPFT_VectorEdgeSum(nq, e,
         GetOverlappingEdgeIndices(G.Surfaces[call.SurfaceIndex], e, [i \in 0..4 |-> Unwritten]),
         0, RZero)
  ELSE EPPFT_VectorEdgeSum(nq, e, 0, RZero)
RECURSIVE VectorSum(_, _, _)
VectorSum(nq, e, acc) ==
  IF e >= loc.NE THEN acc
  ELSE VectorSum(nq, e + 1, RAdd(acc, VectorEdgeSum(nq, e)))
VectorPFT ==
  IF call.fn = "GetOPFT"
  THEN OPFT_WritePFT(G.Surfaces[call.SurfaceIndex], loc.Offset, call.KNVector, call.RHS,
                     [nq \in 0..(NUMPFT - 1) |-> VectorSum(nq, 0, RZero)])
  ELSE [nq \in 0..(NUMPFT - 1) |-> VectorSum(nq, 0, RZero)]

\* C22: a call of GetOPFT or GetEPPFTTrace that is given a current vector
\* and a matrix is not rejected for it (no warning on a call that goes
\* through the loop), never reads the matrix, and returns in PFT and in the
\* by-edge arrays supplied what the call without the matrix returns: the
\* products of every pair come from the vector.
C22_VectorTakesPrecedence ==
  BothSupplied =>
    /\ "RytovMatrix" \notin reads /\ "SigmaMatrix" \notin reads
    /\ (pc = "done" /\ ThroughLoop) => warnings = 0
    /\ (pc = "done" /\ warnings = 0) =>
          /\ PFT = VectorPFT
          /\ ByEdge /= NULL =>
                \A nq \in 0..(NUMPFT - 1) :
                  ByEdge[nq] /= NULL =>
                    \A e \in 0..(loc.NE - 1) : ByEdge[nq][e] = VectorEdgeSum(nq, e)

\* C22 happens: a call of GetOPFT with both inputs on a surface that is not
\* PEC has returned from the loop with nonzero power and force
C22_Witness ==
  /\ BothSupplied /\ pc = "done" /\ warnings = 0
  /\ call.fn = "GetOPFT"
  /\ ~G.Surfaces[call.SurfaceIndex].IsPEC
  /\ ByEdge /= NULL /\ ByEdge[0] /= NULL
  /\ PFT[0] /= RZero /\ PFT[2] /= RZero /\ ByEdge[0][0] /= RZero


(***************************************************************************)
(* Exchange of the two basis functions in GetOverlaps                      *)
(***************************************************************************)
\* GetOverlaps(neBeta, neAlpha, .) of the call GetOverlaps(neAlpha, neBeta, .)
Exchanged == GetOverlaps(Surf(G, call.ns), call.neBeta, call.neAlpha, ZeroOverlaps)
\* dPAbs of line 353 for a pair with the overlaps Ov and some current
\* products with KN /= NK
SamplePAbs(Ov) ==
  OPFT_dPFT([KK |-> CI(1), KN |-> C(<<1, 1>>, <<2, 1>>),
             NK |-> C(<<3, 1>>, <<-1, 1>>), NN |-> CI(1)],
            CI(ZVAC), CI(1), CI(1), Ov)[0]

\* C23: GetOverlaps(alpha, beta) and GetOverlaps(beta, alpha) return the
\* same Overlaps[0] (dot product) and opposite Overlaps[1] (cross product),
\* in exact arithmetic; for alpha = beta Overlaps[1] is 0 and the pair adds
\* nothing to the absorbed power of GetOPFT.
C23_DotSymmetricCrossAntisymmetric ==
  pc \in {"overlaps", "indices"} =>
    /\ Overlaps[OVERLAP_OVERLAP] = Exchanged[OVERLAP_OVERLAP]
    /\ Overlaps[OVERLAP_CROSS] = RNeg(Exchanged[OVERLAP_CROSS])
    /\ call.neAlpha = call.neBeta =>
          /\ Overlaps[OVERLAP_CROSS] = RZero
          /\ SamplePAbs(Overlaps) = RZero

\* C23 happens: two different edges of the scalene panel, both overlaps
\* nonzero and a nonzero contribution to the absorbed power
C23_Witness ==
  /\ pc = "overlaps"
  /\ Surf(G, call.ns).Name = "Scalene"
  /\ call.neAlpha /= call.neBeta
  /\ Overlaps[OVERLAP_OVERLAP] /= RZero
  /\ Overlaps[OVERLAP_CROSS] /= RZero
  /\ SamplePAbs(Overlaps) /= RZero

==========================================================================
